---------------------------- MODULE Spec2Model ----------------------------
(***************************************************************************)
(* A model of xPlist: the binary property list codec (binary.struct,       *)
(* binary.service, numbers.component) and the XML property list codec      *)
(* (plist.struct, plist.service, escape.component).                        *)
(*                                                                         *)
(* A byte buffer is a sequence of numbers 0..255; buffer offsets are       *)
(* 0-based as in the source, so data[offset] is written ByteAt(data,       *)
(* offset).  A string is the sequence of its UTF-16 code units.            *)
(*                                                                         *)
(* A JavaScript value is a record [t, n, f, s, c, k, id]:                     *)
(*   t   the kind: "null" "undefined" "bool" "number" "bigint" "string"    *)
(*       "date" "buffer" "uid" "array" "set" "dict"                        *)
(*   n   bool: 0/1; bigint: the value; number: the largest integer not     *)
(*       above the value; date: the same of the seconds since              *)
(*       2001-01-01T00:00:00Z                                              *)
(*   f   number, date: the rest of the value, in thousandths (0..999)      *)
(*   s   string: code units; buffer, uid: bytes                            *)
(*   c   array, set: the elements; dict: the values                        *)
(*   k   dict: the keys (strings), index-aligned with c                    *)
(*   id  the identity of an object (Date, Buffer, Array, Set, Object);     *)
(*       0 for a primitive, which a Map compares by value                  *)
(***************************************************************************)
EXTENDS Integers, Sequences, FiniteSets, TLC

(***************************************************************************)
(* Bounds of the model.                                                    *)
(***************************************************************************)
\* the number of frames the engine's call stack holds before RangeError
MaxStackDepth == 4
\* the longest string of the escape alphabet the escape functions are called on
MaxEscapeLength == 4
\* the count from which on countElements' count no longer grows
MaxCount == 64
\* the element count of the large Set / Array / Object inputs
ManyElements == 256

(***************************************************************************)
(* Numbers that stand for integers outside the range the model computes in *)
(***************************************************************************)
\* an integer of at least 2^24 that is still a safe integer
Huge == 2 ^ 30
\* an integer above Number.MAX_SAFE_INTEGER (2^53 - 1)
Unsafe == Huge + 1
\* what an out-of-range index read (buffer[i], array[i]) yields: undefined
Undefined == 0 - Unsafe

Min(a, b) == IF a < b THEN a ELSE b

\* const value = ...; then the statements In that follow it.  The value is
\* computed once, as the one call in the source computes it: v ranges over
\* the one-element set of the value computed.
Bind(value, In(_)) == CHOOSE out \in {In(v) : v \in {value}} : TRUE

\* a product that stays Huge / Unsafe when a factor is
SatMul(a, b) ==
    IF b = 0 \/ a = 0 THEN 0
    ELSE IF a >= Huge \/ a <= 0 - Huge THEN a
    ELSE IF b >= Huge THEN b
    ELSE IF a * b >= Huge THEN Huge ELSE a * b

\* a sum that stays Huge / Unsafe when a term is
SatAdd(a, b) ==
    IF a >= Huge THEN a ELSE IF b >= Huge THEN b ELSE a + b

Pow2(e) == 2 ^ e

RECURSIVE ConcatRange(_, _, _)
\* chunks[lo] \o ... \o chunks[hi], by halves so that long lists stay shallow
ConcatRange(chunks, lo, hi) ==
    IF lo > hi THEN <<>>
    ELSE IF lo = hi THEN chunks[lo]
    ELSE LET mid == (lo + hi) \div 2
         IN ConcatRange(chunks, lo, mid) \o ConcatRange(chunks, mid + 1, hi)

\* Buffer.concat
Concat(chunks) == ConcatRange(chunks, 1, Len(chunks))

Zeros(count) == [i \in 1..count |-> 0]

\* buffer[offset]
ByteAt(data, offset) ==
    IF offset >= 0 /\ offset < Len(data) THEN data[offset + 1] ELSE Undefined

\* buffer.subarray(start, end): both ends are clamped to the buffer
Subarray(data, start, end) ==
    LET Rel(i) == IF i = Undefined THEN 0
                  ELSE IF i < 0 THEN (IF Len(data) + i < 0 THEN 0 ELSE Len(data) + i)
                  ELSE Min(i, Len(data))
        s == Rel(start)
        e == Rel(end)
    IN IF e <= s THEN <<>> ELSE SubSeq(data, s + 1, e)

RECURSIVE BytesBE(_, _)
\* the two's complement big-endian bytes of an integer
BytesBE(value, size) ==
    IF size = 0 THEN <<>>
    ELSE Append(BytesBE(value \div 256, size - 1), value % 256)

AllEqual(bytes, b) == \A i \in 1..Len(bytes) : bytes[i] = b

\* the unsigned integer a big-endian byte sequence holds
UnsignedBE(bytes) ==
    LET len == Len(bytes)
        high == IF len > 3 THEN SubSeq(bytes, 1, len - 3) ELSE <<>>
        low == IF len > 3 THEN SubSeq(bytes, len - 2, len) ELSE bytes
        lowValue == IF Len(low) = 0 THEN 0
                    ELSE IF Len(low) = 1 THEN low[1]
                    ELSE IF Len(low) = 2 THEN low[1] * 256 + low[2]
                    ELSE low[1] * 65536 + low[2] * 256 + low[3]
    IN IF AllEqual(high, 0) THEN lowValue
       ELSE IF len = 8 /\ (bytes[1] > 0 \/ bytes[2] >= 32) THEN Unsafe
       ELSE Huge

\* the signed integer a big-endian byte sequence of 4 or more bytes holds
SignedBE(bytes) ==
    LET len == Len(bytes)
    IN IF bytes[1] < 128 THEN UnsignedBE(bytes)
       ELSE IF AllEqual(SubSeq(bytes, 1, len - 3), 255)
       THEN (bytes[len - 2] * 65536 + bytes[len - 1] * 256 + bytes[len]) - 16777216
       ELSE 0 - Huge

(***************************************************************************)
(* components/numbers.component.ts                                         *)
(***************************************************************************)
integerByteLength(number) ==
    IF number < 0 THEN 8
    ELSE IF number <= 255 THEN 1
    ELSE IF number <= 65535 THEN 2
    ELSE IF number < Huge THEN 4
    ELSE 8

\* TRUE when validateSafeInteger throws
validateSafeIntegerThrows(number) == number = Unsafe \/ number = Undefined

\* the bytes writeInteger stores, or the error it throws
writeInteger(value, size) ==
    IF size = 1 THEN
        IF value < 0 \/ value > 255 THEN [err |-> "RangeError", bytes |-> <<>>]
        ELSE [err |-> "", bytes |-> BytesBE(value, 1)]
    ELSE IF size = 2 THEN
        IF value < 0 \/ value > 65535 THEN [err |-> "RangeError", bytes |-> <<>>]
        ELSE [err |-> "", bytes |-> BytesBE(value, 2)]
    ELSE IF size = 4 THEN
        IF value < 0 THEN [err |-> "RangeError", bytes |-> <<>>]
        ELSE [err |-> "", bytes |-> BytesBE(value, 4)]
    ELSE IF size = 8 THEN [err |-> "", bytes |-> BytesBE(value, 8)]
    ELSE IF size = 16 THEN
        IF value < 0 THEN [err |-> "RangeError", bytes |-> <<>>]
        ELSE [err |-> "", bytes |-> Zeros(8) \o BytesBE(value, 8)]
    ELSE [err |-> "BinaryParsingError", bytes |-> <<>>]

\* readInteger: [err, val, big]; big says the result is a bigint
readInteger(buffer, size, offset) ==
    IF validateSafeIntegerThrows(offset)
    THEN [err |-> "RangeError", val |-> 0, big |-> FALSE]
    ELSE IF size \notin {1, 2, 4, 8, 16}
    THEN [err |-> "BinaryParsingError", val |-> 0, big |-> FALSE]
    ELSE LET start == IF size = 16 THEN SatAdd(offset, 8) ELSE offset
             width == IF size = 16 THEN 8 ELSE size
         IN IF start < 0 \/ SatAdd(start, width) > Len(buffer)
            THEN [err |-> "RangeError", val |-> 0, big |-> FALSE]
            ELSE LET bytes == SubSeq(buffer, start + 1, start + width)
                 IN [err |-> "",
                     val |-> IF size = 8 THEN SignedBE(bytes) ELSE UnsignedBE(bytes),
                     big |-> size >= 8]

(***************************************************************************)
(* structs/binary.struct.ts                                                *)
(***************************************************************************)
\* "bplist" and "00" as the bytes headerStruct writes
MagicBytes == <<98, 112, 108, 105, 115, 116>>
VersionBytes == <<48, 48>>
HeaderSize == Len(MagicBytes) + Len(VersionBytes)
TrailerSize == 5 + 1 + 1 + 1 + 8 + 8 + 8

\* headerStruct.toBuffer
headerToBuffer(magic, version) == magic \o version

\* headerStruct.toObject
headerToObject(data) ==
    [magic |-> Subarray(data, 0, 6), version |-> Subarray(data, 6, 8)]

\* trailerStruct.toBuffer
trailerToBuffer(trailer) ==
    Zeros(5) \o <<0>> \o
    <<trailer.offsetTableOffsetSize % 256, trailer.objectReferenceSize % 256>> \o
    BytesBE(trailer.numberOfObjects, 8) \o
    BytesBE(trailer.rootObjectOffset, 8) \o
    BytesBE(trailer.offsetTableOffset, 8)

\* trailerStruct.toObject, on a buffer of TrailerSize bytes
trailerToObject(data) ==
    [offsetTableOffsetSize |-> data[7],
     objectReferenceSize |-> data[8],
     numberOfObjects |-> UnsignedBE(SubSeq(data, 9, 16)),
     rootObjectOffset |-> UnsignedBE(SubSeq(data, 17, 24)),
     offsetTableOffset |-> UnsignedBE(SubSeq(data, 25, 32))]

\* the byte packDataHeader builds, or Undefined when it throws RangeError
packDataHeader(type, info) ==
    IF type < 0 \/ type > 15 \/ info < 0 \/ info > 15 THEN Undefined
    ELSE type * 16 + info

\* unpackDataHeader taking the info from three bits of the byte
unpackDataHeaderThreeBits(byte) ==
    IF byte = Undefined THEN [type |-> 0, info |-> 0]
    ELSE [type |-> byte \div 16, info |-> byte % 8]

unpackDataHeader(byte) ==
    IF byte = Undefined THEN [type |-> 0, info |-> 0]
    ELSE [type |-> byte \div 16, info |-> byte % 16]

\* Math.round(Math.sqrt(size - 1)) for the sizes integerByteLength returns
RoundSqrtPred(size) ==
    CASE size = 1 -> 0
      [] size = 2 -> 1
      [] size = 4 -> 2
      [] size = 8 -> 3
      [] size = 16 -> 4

encodeInteger(integer) ==
    LET size == integerByteLength(integer)
    IN <<packDataHeader(1, RoundSqrtPred(size))>> \o writeInteger(integer, size).bytes

decodeInteger(buffer, info, offset) == readInteger(buffer, Pow2(info), offset)

(***************************************************************************)
(* The integer functions on the whole range of their argument.  A wide     *)
(* integer is [neg, mag]: mag is the magnitude in nine bytes, the most     *)
(* significant first, which holds every value up to 2^72 - 1.              *)
(***************************************************************************)
Wide(neg, bytes) == [neg |-> neg, mag |-> Zeros(9 - Len(bytes)) \o bytes]

\* a < b and a <= b for magnitudes of the same length
MagLess(a, b) ==
    \E i \in 1..Len(a) : a[i] < b[i] /\ \A j \in 1..(i - 1) : a[j] = b[j]
MagLeq(a, b) == a = b \/ MagLess(a, b)

\* number <= bound, for a bound that is not negative
WideLeq(number, bytes) == number.neg \/ MagLeq(number.mag, Wide(FALSE, bytes).mag)

\* mag - 1 for mag > 0, and mag + 1
MagDecrement(mag) ==
    LET last == CHOOSE i \in 1..Len(mag) :
                    mag[i] # 0 /\ \A j \in (i + 1)..Len(mag) : mag[j] = 0
    IN [i \in 1..Len(mag) |->
           IF i < last THEN mag[i] ELSE IF i = last THEN mag[i] - 1 ELSE 255]
MagIncrement(mag) ==
    LET last == CHOOSE i \in 1..Len(mag) :
                    mag[i] # 255 /\ \A j \in (i + 1)..Len(mag) : mag[j] = 255
    IN [i \in 1..Len(mag) |->
           IF i < last THEN mag[i] ELSE IF i = last THEN mag[i] + 1 ELSE 0]

\* every bit of every byte flipped
Invert(bytes) == [i \in 1..Len(bytes) |-> 255 - bytes[i]]

\* the last `size` bytes of a magnitude
LowBytes(mag, size) == SubSeq(mag, Len(mag) - size + 1, Len(mag))

\* the eight bytes of -mag in two's complement, for 0 < mag <= 2^63
TwosComplement(mag) == Invert(LowBytes(MagDecrement(mag), 8))

\* integerByteLength with < in place of <= at 0xFFFFFFFF
integerByteLengthWideBelow(number) ==
    IF number.neg THEN [err |-> "", size |-> 8]
    ELSE IF WideLeq(number, <<255>>) THEN [err |-> "", size |-> 1]
    ELSE IF WideLeq(number, <<255, 255>>) THEN [err |-> "", size |-> 2]
    ELSE IF WideLeq(number, <<255, 255, 255, 254>>) THEN [err |-> "", size |-> 4]
    ELSE IF WideLeq(number, <<127, 255, 255, 255, 255, 255, 255, 255>>)
    THEN [err |-> "", size |-> 8]
    ELSE IF WideLeq(number, <<255, 255, 255, 255, 255, 255, 255, 255>>)
    THEN [err |-> "", size |-> 16]
    ELSE [err |-> "RangeError", size |-> 0]

\* integerByteLength(number) on BigInt(number): [err, size]
integerByteLengthWide(number) ==
    IF number.neg THEN [err |-> "", size |-> 8]
    ELSE IF WideLeq(number, <<255>>) THEN [err |-> "", size |-> 1]
    ELSE IF WideLeq(number, <<255, 255>>) THEN [err |-> "", size |-> 2]
    ELSE IF WideLeq(number, <<255, 255, 255, 255>>) THEN [err |-> "", size |-> 4]
    ELSE IF WideLeq(number, <<127, 255, 255, 255, 255, 255, 255, 255>>)
    THEN [err |-> "", size |-> 8]
    ELSE IF WideLeq(number, <<255, 255, 255, 255, 255, 255, 255, 255>>)
    THEN [err |-> "", size |-> 16]
    ELSE [err |-> "RangeError", size |-> 0]

\* writeInteger(buffer, value, size, offset) on a zero-filled buffer: the
\* bytes stored from offset on, or the RangeError the Buffer method throws
\* for a value outside its range: [err, bytes]
writeIntegerWide(value, size) ==
    LET Unsigned(bytes) ==
            IF ~value.neg /\ WideLeq(value, bytes)
            THEN [err |-> "", bytes |-> LowBytes(value.mag, Len(bytes))]
            ELSE [err |-> "RangeError", bytes |-> <<>>]
    IN CASE size = 1 -> Unsigned(<<255>>)
         [] size = 2 -> Unsigned(<<255, 255>>)
         [] size = 4 -> Unsigned(<<255, 255, 255, 255>>)
         [] size = 8 ->
              IF ~value.neg
              THEN Unsigned(<<127, 255, 255, 255, 255, 255, 255, 255>>)
              ELSE IF MagLeq(value.mag, Wide(FALSE, <<128, 0, 0, 0, 0, 0, 0, 0>>).mag)
              THEN [err |-> "", bytes |-> TwosComplement(value.mag)]
              ELSE [err |-> "RangeError", bytes |-> <<>>]
         [] size = 16 ->
              Bind(Unsigned(<<255, 255, 255, 255, 255, 255, 255, 255>>), LAMBDA low :
                IF low.err # "" THEN low
                ELSE [err |-> "", bytes |-> Zeros(8) \o low.bytes])
         [] OTHER -> [err |-> "BinaryParsingError", bytes |-> <<>>]

\* readInteger(buffer, size, offset): [err, val, big]; big says the result
\* is a bigint
readIntegerWide(buffer, size, offset) ==
    IF size \notin {1, 2, 4, 8, 16}
    THEN [err |-> "BinaryParsingError", val |-> Wide(FALSE, <<>>), big |-> FALSE]
    ELSE LET start == IF size = 16 THEN offset + 8 ELSE offset
             width == IF size = 16 THEN 8 ELSE size
             bytes == SubSeq(buffer, start + 1, start + width)
         IN IF start + width > Len(buffer)
            THEN [err |-> "RangeError", val |-> Wide(FALSE, <<>>), big |-> FALSE]
            ELSE [err |-> "",
                  val |-> IF size = 8 /\ bytes[1] >= 128
                          THEN [neg |-> TRUE,
                                mag |-> MagIncrement(Wide(FALSE, Invert(bytes)).mag)]
                          ELSE Wide(FALSE, bytes),
                  big |-> size >= 8]

\* [err, bytes]
encodeIntegerWide(integer) ==
    Bind(integerByteLengthWide(integer), LAMBDA length :
      IF length.err # "" THEN [err |-> length.err, bytes |-> <<>>]
      ELSE Bind(writeIntegerWide(integer, length.size), LAMBDA written :
             IF written.err # "" THEN written
             ELSE [err |-> "",
                   bytes |-> <<packDataHeader(1, RoundSqrtPred(length.size))>>
                             \o written.bytes]))

\* a decoder that takes info for the number of bytes
decodeIntegerWideOfInfoBytes(buffer, info, offset) ==
    readIntegerWide(buffer, info, offset)

decodeIntegerWide(buffer, info, offset) == readIntegerWide(buffer, Pow2(info), offset)

\* A double is the record [n, f]: the value is n + f / 1000.  writeDoubleBE
\* and readDoubleBE are the runtime's; the eight bytes they store and load
\* are kept here as six bytes of n and two bytes of f.
Double(n, f) == [n |-> n, f |-> f]

\* buffer.writeDoubleBE
DoubleBytes(double) == BytesBE(double.n, 6) \o BytesBE(double.f, 2)

encodeDouble(double, type) == <<packDataHeader(type, 3)>> \o DoubleBytes(double)

\* buffer.readDoubleBE: [err, val]
decodeDouble(buffer, offset) ==
    IF offset < 0 \/ offset + 8 > Len(buffer)
    THEN [err |-> "RangeError", val |-> Double(0, 0)]
    ELSE [err |-> "",
          val |-> Double(SignedBE(SubSeq(buffer, offset + 1, offset + 6)),
                         UnsignedBE(SubSeq(buffer, offset + 7, offset + 8)))]

\* Number.isInteger(number) holds when the value has no fractional part
encodeNumber(number) ==
    IF number.f = 0 THEN encodeInteger(number.n)
    ELSE encodeDouble(number, 2)

\* date is the instant in seconds since REFERENCE_DATE, which is what
\* (date.getTime() - baseDate.getTime()) / 1000 computes
encodeDate(date) == encodeDouble(date, 3)

\* the integer part of a double (ToIntegerOrInfinity rounds towards zero)
ToIntegerOrInfinity(double) ==
    IF double.n < 0 /\ double.f > 0 THEN Double(double.n + 1, 0)
    ELSE Double(double.n, 0)

\* baseDate.setSeconds(dateDouble - baseDate.getUTCSeconds()): the seconds of
\* REFERENCE_DATE are 0 and setSeconds keeps the integer part of its argument
decodeDate(buffer, offset) ==
    Bind(decodeDouble(buffer, offset),
         LAMBDA r : [err |-> r.err, val |-> ToIntegerOrInfinity(r.val)])

\* [err, bytes]
encodeUID(uid) ==
    LET length == Len(uid)
        header == packDataHeader(8, Min(length - 1, 15))
    IN IF header = Undefined THEN [err |-> "RangeError", bytes |-> <<>>]
       ELSE [err |-> "",
             bytes |-> <<header>> \o
                       (IF length > 14 THEN encodeInteger(length) ELSE <<>>) \o uid]

\* [err, val, end]: end is where the subarray taken was declared to end
decodeUID(buffer, info, offset) ==
    IF info > 14 THEN
        LET header == unpackDataHeader(ByteAt(buffer, offset + 1))
            start == offset + (1 + Pow2(header.info))
        IN Bind(decodeInteger(buffer, header.info, offset + 2), LAMBDA size :
             IF size.err # "" THEN [err |-> size.err, val |-> <<>>, end |-> 0]
             ELSE [err |-> "", val |-> Subarray(buffer, start, SatAdd(start, size.val)),
                   end |-> SatAdd(start, size.val)])
    ELSE [err |-> "", val |-> Subarray(buffer, offset, offset + info + 1),
          end |-> offset + info + 1]

\* data.length / bytesSize is a whole number for the buffers the callers pass
encodeBuffer(data, type, bytesSize) ==
    LET header == packDataHeader(type, Min(Len(data) \div bytesSize, 15))
    IN IF Len(data) > 14
       THEN <<header>> \o encodeInteger(Len(data) \div bytesSize) \o data
       ELSE <<header>> \o data

\* [err, val, end]: end is where the subarray taken was declared to end
decodeBuffer(data, info, offset, bytesSize) ==
    IF info > 14 THEN
        LET header == unpackDataHeader(ByteAt(data, offset))
            start == offset + (1 + Pow2(header.info))
        IN Bind(decodeInteger(data, header.info, offset + 1), LAMBDA count :
             LET size == SatMul(count.val, bytesSize)
             IN IF count.err # "" THEN [err |-> count.err, val |-> <<>>, end |-> 0]
                ELSE IF validateSafeIntegerThrows(size)
                THEN [err |-> "BinaryParsingError", val |-> <<>>, end |-> 0]
                ELSE [err |-> "", val |-> Subarray(data, start, SatAdd(start, size)),
                      end |-> SatAdd(start, size)])
    ELSE [err |-> "", val |-> Subarray(data, offset, offset + info * bytesSize),
          end |-> offset + info * bytesSize]

encodeAscii(data) == encodeBuffer(data, 5, 1)

\* Buffer.toString(): a byte below 0x80 is its character, any other byte
\* decodes to U+FFFD
Utf8ToString(bytes) ==
    [i \in 1..Len(bytes) |-> IF bytes[i] < 128 THEN bytes[i] ELSE 65533]

decodeAscii(buffer, info, offset) ==
    Bind(decodeBuffer(buffer, info, offset, 1),
         LAMBDA r : [err |-> r.err, val |-> Utf8ToString(r.val), end |-> r.end])

\* Buffer.from(data, 'utf16le').swap16()
Utf16BEBytes(data) ==
    [i \in 1..(2 * Len(data)) |->
        IF i % 2 = 1 THEN data[(i + 1) \div 2] \div 256 ELSE data[i \div 2] % 256]

encodeUtf16BE(data) == encodeBuffer(Utf16BEBytes(data), 6, 2)

\* swap16().toString('utf16le'); swap16 throws on a buffer of odd length
decodeUtf16BE(buffer, info, offset) ==
    Bind(decodeBuffer(buffer, info, offset, 2), LAMBDA r :
       IF r.err # "" THEN r
       ELSE IF Len(r.val) % 2 # 0 THEN [err |-> "RangeError", val |-> <<>>, end |-> 0]
       ELSE [err |-> "",
             val |-> [i \in 1..(Len(r.val) \div 2) |->
                        r.val[2 * i - 1] * 256 + r.val[2 * i]],
             end |-> r.end])

\* the loop of writeInteger calls over a list: [err, bytes]; the first
\* write that throws ends it
WriteIntegers(values, size) ==
    Bind([i \in 1..Len(values) |-> writeInteger(values[i], size)], LAMBDA written :
       LET failed == {i \in 1..Len(values) : written[i].err # ""}
       IN IF failed # {}
          THEN written[CHOOSE i \in failed : \A j \in failed : i <= j]
          ELSE [err |-> "",
                bytes |-> Concat([i \in 1..Len(values) |-> written[i].bytes])])

\* [err, bytes]
encodeObjects(length, type, offsets, size) ==
    LET header == packDataHeader(type, Min(length, 15))
    IN Bind(WriteIntegers(offsets, size), LAMBDA offsetsBuffer :
         IF offsetsBuffer.err # "" THEN offsetsBuffer
         ELSE IF length > 14
         THEN [err |-> "",
               bytes |-> <<header>> \o encodeInteger(length) \o offsetsBuffer.bytes]
         ELSE [err |-> "", bytes |-> <<header>> \o offsetsBuffer.bytes])

\* packOffsetTable with every offset counted from the end of the header
packOffsetTableFromBody(offsets) ==
    WriteIntegers([i \in 1..Len(offsets) |-> offsets[i] - HeaderSize],
                  integerByteLength(offsets[Len(offsets)])).bytes

\* packOffsetTable sizing the entries by the first offset
packOffsetTableByFirst(offsets) ==
    WriteIntegers(offsets, integerByteLength(offsets[1])).bytes

\* offsets is never empty here: packData passes one offset per object
packOffsetTable(offsets) ==
    WriteIntegers(offsets, integerByteLength(offsets[Len(offsets)])).bytes

\* the for loop of unpackOffsetTable: the first read that throws ends it.
\* Every entry takes a byte at least, so a read at i >= data.length throws
\* and later iterations are never reached.
unpackOffsetTableLoop(data, trailer) ==
    LET count == Min(trailer.numberOfObjects, Len(data) + 1)
    IN Bind([i \in 1..count |->
               readInteger(data, trailer.offsetTableOffsetSize,
                           SatAdd(trailer.offsetTableOffset,
                                  trailer.offsetTableOffsetSize * (i - 1)))],
            LAMBDA entries :
              LET failed == {i \in 1..count : entries[i].err # ""}
              IN IF failed # {}
                 THEN [err |-> entries[CHOOSE i \in failed :
                                          \A j \in failed : i <= j].err,
                       val |-> <<>>]
                 ELSE [err |-> "", val |-> [i \in 1..count |-> entries[i].val]])

\* unpackOffsetTable without its test of numberOfObjects < 1
unpackOffsetTableAnyCount(data, trailer) ==
    IF validateSafeIntegerThrows(trailer.numberOfObjects)
       \/ validateSafeIntegerThrows(trailer.offsetTableOffset)
    THEN [err |-> "BinaryParsingError", val |-> <<>>]
    ELSE unpackOffsetTableLoop(data, trailer)

\* [err, val]
unpackOffsetTable(data, trailer) ==
    IF validateSafeIntegerThrows(trailer.numberOfObjects)
       \/ validateSafeIntegerThrows(trailer.offsetTableOffset)
       \/ trailer.numberOfObjects < 1
    THEN [err |-> "BinaryParsingError", val |-> <<>>]
    ELSE unpackOffsetTableLoop(data, trailer)

(***************************************************************************)
(* JavaScript values                                                       *)
(***************************************************************************)
Value(t, n, f, s, c, k, id) ==
    [t |-> t, n |-> n, f |-> f, s |-> s, c |-> c, k |-> k, id |-> id]

Null == Value("null", 0, 0, <<>>, <<>>, <<>>, 0)
Undef == Value("undefined", 0, 0, <<>>, <<>>, <<>>, 0)
Bool(b) == Value("bool", IF b THEN 1 ELSE 0, 0, <<>>, <<>>, <<>>, 0)
\* the number n + f / 1000
Num(n, f) == Value("number", n, f, <<>>, <<>>, <<>>, 0)
Integer(n) == Num(n, 0)
BigInt(n) == Value("bigint", n, 0, <<>>, <<>>, <<>>, 0)
Str(s) == Value("string", 0, 0, s, <<>>, <<>>, 0)
\* the instant n + f / 1000 seconds after REFERENCE_DATE
Date(n, f, id) == Value("date", n, f, <<>>, <<>>, <<>>, id)
Buf(bytes, id) == Value("buffer", 0, 0, bytes, <<>>, <<>>, id)
\* a Buffer CreateUID has marked
Uid(bytes, id) == Value("uid", 0, 0, bytes, <<>>, <<>>, id)
Arr(c, id) == Value("array", 0, 0, <<>>, c, <<>>, id)
SetOf(c, id) == Value("set", 0, 0, <<>>, c, <<>>, id)
Dict(k, c, id) == Value("dict", 0, 0, <<>>, c, k, id)

IsObject(v) == v.t \in {"date", "buffer", "uid", "array", "set", "dict"}

\* SameValueZero, the comparison of Map keys: objects by identity, primitives
\* by type and value
SameValueZero(a, b) ==
    IF IsObject(a) \/ IsObject(b) THEN IsObject(a) /\ IsObject(b) /\ a.id = b.id
    ELSE a.t = b.t /\ a.n = b.n /\ a.f = b.f /\ a.s = b.s

RECURSIVE StripIdentity(_)
\* the value without the identities of its objects, for comparing two values
\* by content.  The mark CreateUID puts on a Buffer is a symbol property and
\* no part of the content: a UID is compared as the bytes it holds.
StripIdentity(v) ==
    [v EXCEPT !.id = 0,
              !.t = IF @ = "uid" THEN "buffer" ELSE @,
              !.c = [i \in 1..Len(v.c) |-> StripIdentity(v.c[i])]]

DeepEqual(a, b) == StripIdentity(a) = StripIdentity(b)

(***************************************************************************)
(* services/binary.service.ts: encoding                                    *)
(***************************************************************************)
RECURSIVE countElementsLoop(_, _, _)
\* What the while loop of countElements adds to count for the values
\* stack[lo..hi]: it pops every value it pushes exactly once, so the count
\* is the sum over the values, taken here by halves.  Object.values of a Set
\* or a Date is empty; Object.values of a Buffer is its bytes, each then
\* popped as a number.
countElementsLoop(stack, lo, hi) ==
    IF lo > hi THEN 0
    ELSE IF lo < hi
    THEN LET mid == (lo + hi) \div 2
         IN countElementsLoop(stack, lo, mid) + countElementsLoop(stack, mid + 1, hi)
    ELSE LET current == stack[lo]
         IN IF current.t = "array"
            THEN 1 + countElementsLoop(current.c, 1, Len(current.c))
            ELSE IF current.t = "dict"
            THEN 1 + Len(current.c) + countElementsLoop(current.c, 1, Len(current.c))
            ELSE IF current.t \in {"buffer", "uid"}
            THEN 1 + Len(current.s) + Len(current.s)
            ELSE 1

countElements(data) == countElementsLoop(<<data>>, 1, 1)

\* objectRef.map.get(item): the index, or Undefined
MapGet(map, item) ==
    LET hits == {i \in 1..Len(map) : SameValueZero(map[i].item, item)}
    IN IF hits = {} THEN Undefined ELSE map[CHOOSE i \in hits : TRUE].index

\* /^[\x00-\x7F]*$/.test(value)
IsAscii(s) == \A i \in 1..Len(s) : s[i] <= 127

\* what an encoder call hands back: the objectRef as it left it, the chunks
\* it produced and the error it threw, if any
Encoded(ref, data, err) == [ref |-> ref, data |-> data, err |-> err]

RECURSIVE encodeType(_, _)
RECURSIVE encodeReference(_, _)
RECURSIVE encodeArrayLoop(_, _, _, _)
RECURSIVE encodeObjectLoop(_, _, _, _)

\* [ref, data, err, index]: index is what is pushed on the referenceMap
encodeReference(item, objectRef) ==
    LET itemIndex == MapGet(objectRef.map, item)
    IN IF itemIndex = Undefined
       THEN LET entered == [objectRef EXCEPT
                              !.map = Append(@, [item |-> item, index |-> objectRef.offset]),
                              !.offset = @ + 1]
            IN Bind(encodeType(item, entered), LAMBDA result :
                 [ref |-> result.ref, data |-> result.data, err |-> result.err,
                  index |-> objectRef.offset])
       ELSE [ref |-> objectRef, data |-> <<>>, err |-> "", index |-> itemIndex]

\* The iterations lo..hi of the for loop of encodeArray, run in order (the
\* first half, then the second half from the objectRef the first left):
\* [ref, data, err, referenceMap]
encodeArrayLoop(value, lo, hi, objectRef) ==
    IF lo > hi
    THEN [ref |-> objectRef, data |-> <<>>, err |-> "", referenceMap |-> <<>>]
    ELSE IF lo = hi
    THEN Bind(encodeReference(value[lo], objectRef), LAMBDA r :
           [ref |-> r.ref, data |-> r.data, err |-> r.err, referenceMap |-> <<r.index>>])
    ELSE LET mid == (lo + hi) \div 2
         IN Bind(encodeArrayLoop(value, lo, mid, objectRef), LAMBDA first :
              IF first.err # "" THEN first
              ELSE Bind(encodeArrayLoop(value, mid + 1, hi, first.ref), LAMBDA second :
                     IF second.err # "" THEN second
                     ELSE [ref |-> second.ref, data |-> first.data \o second.data,
                           err |-> "",
                           referenceMap |-> first.referenceMap \o second.referenceMap]))

encodeArray(value, length, type, objectRef) ==
    Bind(encodeArrayLoop(value, 1, Len(value), objectRef), LAMBDA loop :
       IF loop.err # "" THEN Encoded(loop.ref, <<>>, loop.err)
       ELSE Bind(encodeObjects(length, type, loop.referenceMap,
                               loop.ref.objectReferenceSize), LAMBDA header :
              IF header.err # "" THEN Encoded(loop.ref, <<>>, header.err)
              ELSE Encoded([loop.ref EXCEPT !.written = @ \o loop.referenceMap],
                           <<header.bytes>> \o loop.data, "")))

\* The iterations lo..hi of the for loop of encodeObject, run in order:
\* [ref, data, err, keyReferenceMap, valueReferenceMap]
encodeObjectLoop(value, lo, hi, objectRef) ==
    IF lo > hi
    THEN [ref |-> objectRef, data |-> <<>>, err |-> "",
          keyReferenceMap |-> <<>>, valueReferenceMap |-> <<>>]
    ELSE IF lo = hi
    THEN Bind(encodeReference(Str(value.k[lo]), objectRef), LAMBDA key :
           IF key.err # ""
           THEN [ref |-> key.ref, data |-> <<>>, err |-> key.err,
                 keyReferenceMap |-> <<>>, valueReferenceMap |-> <<>>]
           ELSE Bind(encodeReference(value.c[lo], key.ref), LAMBDA val :
                  [ref |-> val.ref, data |-> key.data \o val.data, err |-> val.err,
                   keyReferenceMap |-> <<key.index>>,
                   valueReferenceMap |-> <<val.index>>]))
    ELSE LET mid == (lo + hi) \div 2
         IN Bind(encodeObjectLoop(value, lo, mid, objectRef), LAMBDA first :
              IF first.err # "" THEN first
              ELSE Bind(encodeObjectLoop(value, mid + 1, hi, first.ref), LAMBDA second :
                     IF second.err # "" THEN second
                     ELSE [ref |-> second.ref, data |-> first.data \o second.data,
                           err |-> "",
                           keyReferenceMap |->
                               first.keyReferenceMap \o second.keyReferenceMap,
                           valueReferenceMap |->
                               first.valueReferenceMap \o second.valueReferenceMap]))

encodeObject(value, objectRef) ==
    Bind(encodeObjectLoop(value, 1, Len(value.k), objectRef), LAMBDA loop :
       LET references == loop.keyReferenceMap \o loop.valueReferenceMap
       IN IF loop.err # "" THEN Encoded(loop.ref, <<>>, loop.err)
          ELSE Bind(encodeObjects(Len(value.k), 13, references,
                                  loop.ref.objectReferenceSize), LAMBDA header :
                 IF header.err # "" THEN Encoded(loop.ref, <<>>, header.err)
                 ELSE Encoded([loop.ref EXCEPT !.written = @ \o references],
                              <<header.bytes>> \o loop.data, "")))

encodeType(value, objectRef) ==
    IF value.t = "null" THEN Encoded(objectRef, <<<<packDataHeader(0, 0)>>>>, "")
    ELSE IF value.t = "bool"
    THEN Encoded(objectRef, <<<<packDataHeader(0, IF value.n = 1 THEN 9 ELSE 8)>>>>, "")
    ELSE IF value.t = "set" THEN encodeArray(value.c, Len(value.c), 12, objectRef)
    ELSE IF value.t = "date"
    THEN Encoded(objectRef, <<encodeDate(Double(value.n, value.f))>>, "")
    ELSE IF value.t = "uid"
    THEN Bind(encodeUID(value.s), LAMBDA uid : Encoded(objectRef, <<uid.bytes>>, uid.err))
    ELSE IF value.t = "array" THEN encodeArray(value.c, Len(value.c), 10, objectRef)
    ELSE IF value.t = "buffer" THEN Encoded(objectRef, <<encodeBuffer(value.s, 4, 1)>>, "")
    ELSE IF value.t = "string" /\ IsAscii(value.s)
    THEN Encoded(objectRef, <<encodeAscii(value.s)>>, "")
    ELSE IF value.t = "string" THEN Encoded(objectRef, <<encodeUtf16BE(value.s)>>, "")
    ELSE IF value.t = "number"
    THEN Encoded(objectRef, <<encodeNumber(Double(value.n, value.f))>>, "")
    ELSE IF value.t = "bigint" THEN Encoded(objectRef, <<encodeInteger(value.n)>>, "")
    ELSE IF value.t = "dict" THEN encodeObject(value, objectRef)
    ELSE Encoded(objectRef, <<>>, "BinaryParsingError")

RECURSIVE packDataOffsets(_, _, _, _)
\* the offsets loop of packData over dataArray[lo..hi], entered with
\* info.offsetTableOffset = start: [offsets, offsetTableOffset]
packDataOffsets(dataArray, lo, hi, start) ==
    IF lo > hi THEN [offsets |-> <<>>, offsetTableOffset |-> start]
    ELSE IF lo = hi
    THEN [offsets |-> <<start>>, offsetTableOffset |-> start + Len(dataArray[lo])]
    ELSE LET mid == (lo + hi) \div 2
         IN Bind(packDataOffsets(dataArray, lo, mid, start), LAMBDA first :
              Bind(packDataOffsets(dataArray, mid + 1, hi, first.offsetTableOffset),
                   LAMBDA second :
                     [offsets |-> first.offsets \o second.offsets,
                      offsetTableOffset |-> second.offsetTableOffset]))

\* packData with numberOfObjects taken from the reference map, which has no
\* entry for the root
packDataCountingMap(dataArray, info) ==
    Bind(packDataOffsets(dataArray, 1, Len(dataArray), info.offsetTableOffset),
         LAMBDA loop :
           [info |-> [info EXCEPT
                        !.numberOfObjects = Len(info.map),
                        !.offsetTableOffset = loop.offsetTableOffset,
                        !.offsetTableOffsetSize =
                            integerByteLength(loop.offsets[Len(loop.offsets)])],
            offsets |-> loop.offsets,
            bytes |-> Concat(dataArray) \o packOffsetTable(loop.offsets)])

\* [info, offsets, bytes]
packData(dataArray, info) ==
    Bind(packDataOffsets(dataArray, 1, Len(dataArray), info.offsetTableOffset),
         LAMBDA loop :
           [info |-> [info EXCEPT
                        !.numberOfObjects = Len(dataArray),
                        !.offsetTableOffset = loop.offsetTableOffset,
                        !.offsetTableOffsetSize =
                            integerByteLength(loop.offsets[Len(loop.offsets)])],
            offsets |-> loop.offsets,
            bytes |-> Concat(dataArray) \o packOffsetTable(loop.offsets)])

\* What encodeBinary returns or throws: [err, bytes], with the final info
\* record, the values in the order of their reference index (the root is 0),
\* the chunk offsets packData computed, and how many chunks encodeType
\* returned and how many bytes they hold together.
encodeBinary(data) ==
    LET headerBuffer == headerToBuffer(MagicBytes, VersionBytes)
        info == [map |-> <<>>,
                 offset |-> 1,
                 numberOfObjects |-> 0,
                 offsetTableOffset |-> Len(headerBuffer),
                 objectReferenceSize |-> integerByteLength(countElements(data)),
                 offsetTableOffsetSize |-> 0,
                 written |-> <<>>]
    IN Bind(encodeType(data, info), LAMBDA encoded :
         IF encoded.err # ""
         THEN [err |-> encoded.err, bytes |-> <<>>, info |-> encoded.ref,
               objects |-> <<>>, offsets |-> <<>>, chunks |-> 0, bodyLength |-> 0]
         ELSE Bind(packData(encoded.data, encoded.ref), LAMBDA packed :
                LET trailerBuffer == trailerToBuffer(
                        [numberOfObjects |-> packed.info.numberOfObjects,
                         rootObjectOffset |-> 0,
                         offsetTableOffset |-> packed.info.offsetTableOffset,
                         objectReferenceSize |-> packed.info.objectReferenceSize,
                         offsetTableOffsetSize |-> packed.info.offsetTableOffsetSize])
                IN [err |-> "", bytes |-> headerBuffer \o packed.bytes \o trailerBuffer,
                    info |-> packed.info,
                    objects |-> <<data>> \o [i \in 1..Len(encoded.ref.map) |->
                                                encoded.ref.map[i].item],
                    offsets |-> packed.offsets,
                    chunks |-> Len(encoded.data),
                    bodyLength |-> Len(Concat(encoded.data))]))

(***************************************************************************)
(* services/binary.service.ts: decoding                                    *)
(*                                                                         *)
(* decodeType, decodeArray / decodeSet / decodeObject and decodeReference  *)
(* call each other recursively.  The recursion is kept as an explicit call *)
(* stack with one frame per container being decoded, so that one step is   *)
(* one decodeReference call (or one return) of the innermost container.    *)
(***************************************************************************)
\* offsets[index]
OffsetAt(offsets, index) ==
    IF index >= 0 /\ index < Len(offsets) THEN offsets[index + 1] ELSE Undefined

\* objectRef.map.get(objectIndex); undefined when there is no entry
MemoGet(map, objectIndex) ==
    LET hits == {i \in 1..Len(map) : map[i].key = objectIndex}
    IN IF hits = {} THEN Undef ELSE map[CHOOSE i \in hits : TRUE].object

\* objectRef.map.set(objectIndex, object)
MemoSet(map, objectIndex, object) ==
    IF \E i \in 1..Len(map) : map[i].key = objectIndex
    THEN [i \in 1..Len(map) |->
            IF map[i].key = objectIndex THEN [map[i] EXCEPT !.object = object]
            ELSE map[i]]
    ELSE Append(map, [key |-> objectIndex, object |-> object])

RECURSIVE NatDigits(_)
NatDigits(n) ==
    IF n < 10 THEN <<48 + n>> ELSE NatDigits(n \div 10) \o <<48 + (n % 10)>>

IntToString(n) == IF n < 0 THEN <<45>> \o NatDigits(0 - n) ELSE NatDigits(n)

RECURSIVE UnsignedDecimal(_, _)
\* the number the first count decimal digits of digits write
UnsignedDecimal(digits, count) ==
    IF count = 0 THEN 0
    ELSE UnsignedDecimal(digits, count - 1) * 10 + (digits[count] - 48)

\* the digits of a fraction in thousandths, without trailing zeros
FractionDigits(f) ==
    IF f % 100 = 0 THEN <<48 + (f \div 100)>>
    ELSE IF f % 10 = 0 THEN <<48 + (f \div 100), 48 + ((f \div 10) % 10)>>
    ELSE <<48 + (f \div 100), 48 + ((f \div 10) % 10), 48 + (f % 10)>>

NumberToString(n, f) ==
    IF f = 0 \/ f > 999 THEN IntToString(n)
    ELSE IF n >= 0 THEN NatDigits(n) \o <<46>> \o FractionDigits(f)
    ELSE <<45>> \o NatDigits(0 - n - 1) \o <<46>> \o FractionDigits(1000 - f)

RECURSIVE toString(_)
RECURSIVE JoinToString(_, _)
\* Array.prototype.join(","): null and undefined elements give the empty string
JoinToString(items, i) ==
    IF i > Len(items) THEN <<>>
    ELSE (IF i > 1 THEN <<44>> ELSE <<>>) \o
         (IF items[i].t \in {"null", "undefined"} THEN <<>> ELSE toString(items[i])) \o
         JoinToString(items, i + 1)

\* value.toString() of a value that is neither null nor undefined.  The text
\* of a Date depends on the host's locale and time zone: it is kept as "D"
\* followed by the seconds.
toString(v) ==
    CASE v.t = "string" -> v.s
      [] v.t = "number" -> NumberToString(v.n, v.f)
      [] v.t = "bigint" -> IntToString(v.n)
      [] v.t = "bool" -> IF v.n = 1 THEN <<116, 114, 117, 101>>
                         ELSE <<102, 97, 108, 115, 101>>
      [] v.t \in {"buffer", "uid"} -> Utf8ToString(v.s)
      [] v.t = "array" -> JoinToString(v.c, 1)
      [] v.t = "date" -> <<68>> \o IntToString(v.n)
      [] v.t = "set" ->
            <<91, 111, 98, 106, 101, 99, 116, 32, 83, 101, 116, 93>>
      [] OTHER ->
            <<91, 111, 98, 106, 101, 99, 116, 32, 79, 98, 106, 101, 99, 116, 93>>

\* a decoder that reads the count of a long container but takes the bytes
\* of the count for the first references
decodeContainerHeaderInPlace(buffer, length, offset, offsetSize) ==
    IF length > 14 THEN
        LET intHeader == unpackDataHeader(ByteAt(buffer, offset))
        IN Bind(decodeInteger(buffer, intHeader.info, offset + 1), LAMBDA size :
             IF size.err # "" THEN [err |-> size.err, offset |-> 0, bytesLength |-> 0]
             ELSE IF validateSafeIntegerThrows(size.val)
             THEN [err |-> "BinaryParsingError", offset |-> 0, bytesLength |-> 0]
             ELSE [err |-> "", offset |-> offset,
                   bytesLength |-> SatMul(size.val, offsetSize)])
    ELSE [err |-> "", offset |-> offset, bytesLength |-> length * offsetSize]

\* the first lines of decodeArray, decodeSet and decodeObject: where the
\* references start and how many bytes they take; [err, offset, bytesLength]
decodeContainerHeader(buffer, length, offset, offsetSize) ==
    IF length > 14 THEN
        LET intHeader == unpackDataHeader(ByteAt(buffer, offset))
        IN Bind(decodeInteger(buffer, intHeader.info, offset + 1), LAMBDA size :
             IF size.err # "" THEN [err |-> size.err, offset |-> 0, bytesLength |-> 0]
             ELSE IF validateSafeIntegerThrows(size.val)
             THEN [err |-> "BinaryParsingError", offset |-> 0, bytesLength |-> 0]
             ELSE [err |-> "", offset |-> offset + (1 + Pow2(intHeader.info)),
                   bytesLength |-> SatMul(size.val, offsetSize)])
    ELSE [err |-> "", offset |-> offset, bytesLength |-> length * offsetSize]

\* What decodeType hands back.  outside records that the call took bytes
\* from outside the buffer without throwing: a header byte read at an offset
\* that is undefined or not in the buffer, or a subarray declared to end
\* after the buffer's end.
Scalar(val) == [kind |-> "value", val |-> val, err |-> "", type |-> "",
                offset |-> 0, bytesLength |-> 0, outside |-> FALSE]
Thrown(err) == [kind |-> "error", val |-> Undef, err |-> err, type |-> "",
                offset |-> 0, bytesLength |-> 0, outside |-> FALSE]

\* decodeType at `offset`, up to the loop of a container: the value of a
\* scalar, the error thrown, or the container whose references are next.
\* id is the identity a newly created object gets.
decodeType(data, offset, offsetSize, id) ==
    LET header == unpackDataHeader(ByteAt(data, offset))
        next == offset + 1
        FromResult(r, val) == IF r.err # "" THEN Thrown(r.err) ELSE Scalar(val)
        FromBytes(r, val) ==
            IF r.err # "" THEN Thrown(r.err)
            ELSE [Scalar(val) EXCEPT !.outside = r.end > Len(data)]
    IN CASE header.type = 0 ->
              [Scalar(IF header.info = 0 THEN Null
                      ELSE IF header.info = 9 THEN Bool(TRUE)
                      ELSE IF header.info = 8 THEN Bool(FALSE)
                      ELSE Undef)
               EXCEPT !.outside = (ByteAt(data, offset) = Undefined)]
         [] header.type = 1 ->
              Bind(decodeInteger(data, header.info, next), LAMBDA r :
                FromResult(r, IF r.big THEN BigInt(r.val) ELSE Integer(r.val)))
         [] header.type = 2 ->
              Bind(decodeDouble(data, next), LAMBDA r :
                FromResult(r, Num(r.val.n, r.val.f)))
         [] header.type = 3 ->
              Bind(decodeDate(data, next), LAMBDA r :
                FromResult(r, Date(r.val.n, r.val.f, id)))
         [] header.type = 4 ->
              Bind(decodeBuffer(data, header.info, next, 1), LAMBDA r :
                FromBytes(r, Buf(r.val, id)))
         [] header.type = 5 ->
              Bind(decodeAscii(data, header.info, next), LAMBDA r :
                FromBytes(r, Str(r.val)))
         [] header.type = 6 ->
              Bind(decodeUtf16BE(data, header.info, next), LAMBDA r :
                FromBytes(r, Str(r.val)))
         [] header.type = 8 ->
              Bind(decodeUID(data, header.info, next), LAMBDA r :
                FromBytes(r, Buf(r.val, id)))
         [] header.type \in {10, 12, 13} ->
              Bind(decodeContainerHeader(data, header.info, next, offsetSize), LAMBDA r :
                IF r.err # "" THEN Thrown(r.err)
                ELSE [kind |-> "container", val |-> Undef, err |-> "", outside |-> FALSE,
                      type |-> IF header.type = 10 THEN "array"
                               ELSE IF header.type = 12 THEN "set" ELSE "dict",
                      offset |-> r.offset, bytesLength |-> r.bytesLength])
         [] OTHER -> Thrown("BinaryParsingError")

\* A frame of the call stack: a decodeArray / decodeSet / decodeObject call.
\* root: called by decodeBinary, not by decodeReference; objectIndex: the key
\* decodeReference memoizes the result under; phase: "item" before reading
\* the next reference, "value" between the key and the value of a dict entry.
Frame(type, root, objectIndex, offset, bytesLength, id) ==
    [type |-> type, root |-> root, objectIndex |-> objectIndex, offset |-> offset,
     bytesLength |-> bytesLength, i |-> 0, phase |-> "item", c |-> <<>>, k |-> <<>>,
     key |-> <<>>, valueIndex |-> 0, id |-> id]

\* the container a finished frame returns
FrameValue(frame) ==
    IF frame.type = "array" THEN Arr(frame.c, frame.id)
    ELSE IF frame.type = "set" THEN SetOf(frame.c, frame.id)
    ELSE Dict(frame.k, frame.c, frame.id)

\* object[key] = value: a key already present keeps its place
AssignKey(frame, key, val) ==
    IF \E j \in 1..Len(frame.k) : frame.k[j] = key
    THEN [frame EXCEPT !.c = [j \in 1..Len(frame.c) |->
                                 IF frame.k[j] = key THEN val ELSE frame.c[j]]]
    ELSE [frame EXCEPT !.k = Append(@, key), !.c = Append(@, val)]

\* i += offsetSize: the next index of the loop over the references
NextReferenceOffset(i, offsetSize) == i + offsetSize

\* The decoder hands `object` to the call on top of the stack: array.push,
\* set.add, or the key / the value of a dict entry.  [err, frame]
Deliver(frame, object, offsetSize) ==
    IF frame.type = "array"
    THEN [err |-> "", frame |-> [frame EXCEPT !.c = Append(@, object),
                                              !.i = NextReferenceOffset(@, offsetSize)]]
    ELSE IF frame.type = "set"
    THEN [err |-> "",
          frame |-> [frame EXCEPT
                       !.c = IF \E j \in 1..Len(frame.c) : SameValueZero(frame.c[j], object)
                             THEN @ ELSE Append(@, object),
                       !.i = NextReferenceOffset(@, offsetSize)]]
    ELSE IF frame.phase = "item"
    THEN IF object.t \in {"null", "undefined"}
         THEN [err |-> "TypeError", frame |-> frame]
         ELSE [err |-> "", frame |-> [frame EXCEPT !.key = toString(object),
                                                   !.phase = "value"]]
    ELSE [err |-> "",
          frame |-> [AssignKey(frame, frame.key, object) EXCEPT
                       !.phase = "item", !.i = NextReferenceOffset(@, offsetSize)]]

\* the decoder's state: the call stack, objectRef.map, the next fresh object
\* identity; and how the call ended: status is "running", "returned" or "threw"
\* outside: some decodeType call of this decodeBinary call took bytes from
\* outside the buffer without throwing
Running(stack, map, nextId) ==
    [status |-> "running", stack |-> stack, map |-> map, nextId |-> nextId,
     val |-> Undef, err |-> "", outside |-> FALSE]
Returned(val) ==
    [status |-> "returned", stack |-> <<>>, map |-> <<>>, nextId |-> 0,
     val |-> val, err |-> "", outside |-> FALSE]
Threw(err) ==
    [status |-> "threw", stack |-> <<>>, map |-> <<>>, nextId |-> 0,
     val |-> Undef, err |-> err, outside |-> FALSE]

\* the outcome `to` of a step, keeping what the call has recorded so far
Outside(to, flag) == [to EXCEPT !.outside = @ \/ flag]

\* a call one level deeper: the engine throws RangeError ("Maximum call stack
\* size exceeded") when the stack is full
PushFrame(stack, frame) ==
    IF Len(stack) >= MaxStackDepth
    THEN [err |-> "RangeError: Maximum call stack size exceeded", stack |-> stack]
    ELSE [err |-> "", stack |-> Append(stack, frame)]

ReplaceTop(stack, frame) == [stack EXCEPT ![Len(stack)] = frame]

\* `object` reaches the frame on top of `stack`
DeliverTop(stack, map, nextId, object, offsetSize) ==
    Bind(Deliver(stack[Len(stack)], object, offsetSize), LAMBDA d :
       IF d.err # "" THEN Threw(d.err)
       ELSE Running(ReplaceTop(stack, d.frame), map, nextId))

\* decodeReference(buffer, index, offsets, objectRef), called by the frame on
\* top of the stack
decodeReference(data, index, offsets, offsetSize, dec) ==
    LET objectIndex == OffsetAt(offsets, index)
    IN Bind(MemoGet(dec.map, objectIndex), LAMBDA object :
         IF object.t # "undefined"
         THEN DeliverTop(dec.stack, dec.map, dec.nextId, object, offsetSize)
         ELSE Bind(decodeType(data, objectIndex, offsetSize, dec.nextId), LAMBDA entered :
                IF entered.kind = "error" THEN Threw(entered.err)
                ELSE IF entered.kind = "value"
                THEN Outside(DeliverTop(dec.stack,
                                        MemoSet(dec.map, objectIndex, entered.val),
                                        IF IsObject(entered.val) THEN dec.nextId + 1
                                        ELSE dec.nextId,
                                        entered.val, offsetSize),
                             entered.outside)
                ELSE Bind(PushFrame(dec.stack,
                                    Frame(entered.type, FALSE, objectIndex,
                                          entered.offset, entered.bytesLength,
                                          dec.nextId)),
                          LAMBDA pushed :
                            IF pushed.err # "" THEN Threw(pushed.err)
                            ELSE Running(pushed.stack, dec.map, dec.nextId + 1))))

\* a container whose loop starts over when it reaches the end of its
\* references
restartContainer(dec, offsetSize) ==
    Running(ReplaceTop(dec.stack,
                       [dec.stack[Len(dec.stack)] EXCEPT
                          !.i = 0, !.c = <<>>, !.k = <<>>, !.phase = "item"]),
            dec.map, dec.nextId)

\* the container on top of the stack is complete: its call returns to
\* decodeReference, which memoizes it and hands it to the caller
returnContainer(dec, offsetSize) ==
    LET frame == dec.stack[Len(dec.stack)]
        object == FrameValue(frame)
        rest == SubSeq(dec.stack, 1, Len(dec.stack) - 1)
    IN IF frame.root THEN Returned(object)
       ELSE DeliverTop(rest, MemoSet(dec.map, frame.objectIndex, object),
                       dec.nextId, object, offsetSize)

\* one iteration step of the innermost decodeArray / decodeSet / decodeObject
decodeStep(data, offsets, offsetSize, dec) ==
    LET frame == dec.stack[Len(dec.stack)]
    IN IF frame.phase = "value"
       THEN decodeReference(data, frame.valueIndex, offsets, offsetSize, dec)
       ELSE IF frame.i >= frame.bytesLength THEN returnContainer(dec, offsetSize)
       ELSE Bind(readInteger(data, offsetSize, frame.offset + frame.i), LAMBDA index :
              IF index.err # "" THEN Threw(index.err)
              ELSE IF frame.type # "dict"
              THEN decodeReference(data, index.val, offsets, offsetSize, dec)
              ELSE Bind(readInteger(data, offsetSize,
                                    SatAdd(frame.offset + frame.i, frame.bytesLength)),
                        LAMBDA valueIndex :
                          IF valueIndex.err # "" THEN Threw(valueIndex.err)
                          ELSE decodeReference(data, index.val, offsets, offsetSize,
                                 [dec EXCEPT !.stack = ReplaceTop(dec.stack,
                                    [frame EXCEPT !.valueIndex = valueIndex.val])])))

\* TRUE when decodeBinary accepts the header
headerAccepted(headerObject) ==
    ~(headerObject.magic # MagicBytes /\ headerObject.version # VersionBytes)

\* decodeBinary up to its call of decodeType at headerStruct.size:
\* [dec, offsets, offsetSize]
decodeBinaryBegin(data) ==
    IF ~headerAccepted(headerToObject(data))
    THEN [dec |-> Threw("Error"), offsets |-> <<>>, offsetSize |-> 0]
    ELSE
    Bind(trailerToObject(Subarray(data, Len(data) - TrailerSize, Len(data))),
         LAMBDA trailerObject :
    Bind(unpackOffsetTable(data, trailerObject), LAMBDA offsetsTable :
      IF offsetsTable.err # ""
      THEN [dec |-> Threw(offsetsTable.err), offsets |-> <<>>, offsetSize |-> 0]
      ELSE
      Bind(decodeType(data, HeaderSize, trailerObject.objectReferenceSize, 1),
           LAMBDA entered :
             [dec |-> IF entered.kind = "error" THEN Threw(entered.err)
                      ELSE IF entered.kind = "value"
                      THEN Outside(Returned(entered.val), entered.outside)
                      ELSE Running(<<Frame(entered.type, TRUE, Undefined, entered.offset,
                                           entered.bytesLength, 1)>>, <<>>, 2),
              offsets |-> offsetsTable.val,
              offsetSize |-> trailerObject.objectReferenceSize])))

(***************************************************************************)
(* Text.  A string is the sequence of its UTF-16 code units; the literals  *)
(* of the source are written out as their codes.                           *)
(***************************************************************************)
\* /\s/ for the characters the inputs use: space, tab, line feed, carriage
\* return
IsSpace(c) == c \in {32, 9, 10, 13}

\* /[a-zA-Z0-9]/
IsAlnum(c) == (c >= 48 /\ c <= 57) \/ (c >= 65 /\ c <= 90) \/ (c >= 97 /\ c <= 122)

\* string.slice(start, end) with 0 <= start
Slice(text, start, end) ==
    IF end <= start THEN <<>> ELSE SubSeq(text, start + 1, Min(end, Len(text)))

\* string.trim()
Trim(text) ==
    LET kept == {i \in 1..Len(text) : ~IsSpace(text[i])}
    IN IF kept = {} THEN <<>>
       ELSE SubSeq(text, CHOOSE i \in kept : \A j \in kept : i <= j,
                         CHOOSE i \in kept : \A j \in kept : j <= i)

\* text.startsWith(word, at), at counted from 0
StartsWithAt(text, word, at) ==
    at + Len(word) <= Len(text) /\ SubSeq(text, at + 1, at + Len(word)) = word

(***************************************************************************)
(* components/escape.component.ts                                          *)
(***************************************************************************)
\* escapeEntities[char] for the five characters encodeEscaping replaces
EscapeOf(c) ==
    CASE c = 60 -> <<38, 108, 116, 59>>           \* <  &lt;
      [] c = 62 -> <<38, 103, 116, 59>>           \* >  &gt;
      [] c = 38 -> <<38, 97, 109, 112, 59>>      \* &  &amp;
      [] c = 34 -> <<38, 113, 117, 111, 116, 59>>  \* "  &quot;
      [] c = 39 -> <<38, 35, 51, 57, 59>>       \* '  &#39;
      [] OTHER -> <<c>>

\* input.replace(/[<>&"']/g, (char) => escapeEntities[char] || char)
encodeEscaping(input) == Concat([i \in 1..Len(input) |-> EscapeOf(input[i])])

\* escapeEntities[entity] || entity
UnescapeOf(entity) ==
    CASE entity = <<38, 108, 116, 59>> -> <<60>>
      [] entity = <<38, 103, 116, 59>> -> <<62>>
      [] entity = <<38, 97, 109, 112, 59>> -> <<38>>
      [] entity = <<38, 113, 117, 111, 116, 59>> -> <<34>>
      [] entity = <<38, 35, 51, 57, 59>> -> <<39>>
      [] OTHER -> entity

\* the end (exclusive, counted from 0) of the match of /&[a-zA-Z0-9#]+;/ that
\* starts at `at`, or Undefined
EntityEnd(input, at) ==
    IF at >= Len(input) \/ input[at + 1] # 38 THEN Undefined
    ELSE LET stops == {j \in (at + 2)..Len(input) : ~(IsAlnum(input[j]) \/ input[j] = 35)}
             stop == IF stops = {} THEN Len(input) + 1
                     ELSE CHOOSE j \in stops : \A k \in stops : j <= k
         IN IF stop <= Len(input) /\ stop > at + 2 /\ input[stop] = 59 THEN stop
            ELSE Undefined

RECURSIVE decodeEscapingFrom(_, _)
\* the replace of decodeEscaping from position `at` on
decodeEscapingFrom(input, at) ==
    IF at >= Len(input) THEN <<>>
    ELSE IF EntityEnd(input, at) = Undefined
    THEN <<input[at + 1]>> \o decodeEscapingFrom(input, at + 1)
    ELSE UnescapeOf(Slice(input, at, EntityEnd(input, at)))
         \o decodeEscapingFrom(input, EntityEnd(input, at))

\* input.replace(/&[a-zA-Z0-9#]+;/g, (entity) => escapeEntities[entity] || entity)
\* decodeEscaping replacing again in what it has replaced
decodeEscapingTwice(input) == decodeEscapingFrom(decodeEscapingFrom(input, 0), 0)

decodeEscaping(input) == decodeEscapingFrom(input, 0)

(***************************************************************************)
(* The runtime's conversions the XML codec calls                           *)
(***************************************************************************)
\* the decimal digits of n, padded with zeros to at least width digits
PadDigits(n, width) ==
    Bind(NatDigits(n), LAMBDA d :
        [i \in 1..(width - Len(d)) |-> 48] \o d)

\* the number a run of decimal digits writes
DigitsValue(digits) == UnsignedDecimal(digits, Len(digits))

\* text is a non-empty run of decimal digits
IsDigits(text) == Len(text) > 0 /\ \A i \in 1..Len(text) : text[i] >= 48 /\ text[i] <= 57

\* the days from 1970-01-01 to REFERENCE_DATE, 2001-01-01
ReferenceDay == 11323

\* the civil date [y, m, d] of a day counted from 1970-01-01 (proleptic
\* Gregorian calendar, as Date.prototype.toISOString uses)
CivilFromDays(days) ==
    LET z == days + 719468
        era == z \div 146097
        doe == z - era * 146097
        yoe == (doe - doe \div 1460 + doe \div 36524 - doe \div 146096) \div 365
        doy == doe - (365 * yoe + yoe \div 4 - yoe \div 100)
        mp == (5 * doy + 2) \div 153
        m == IF mp < 10 THEN mp + 3 ELSE mp - 9
    IN [y |-> yoe + era * 400 + (IF m <= 2 THEN 1 ELSE 0),
        m |-> m,
        d |-> doy - (153 * mp + 2) \div 5 + 1]

\* the day, counted from 1970-01-01, of a civil date
DaysFromCivil(y, m, d) ==
    LET yy == IF m <= 2 THEN y - 1 ELSE y
        era == yy \div 400
        yoe == yy - era * 400
        doy == (153 * (IF m > 2 THEN m - 3 ELSE m + 9) + 2) \div 5 + d - 1
        doe == yoe * 365 + yoe \div 4 - yoe \div 100 + doy
    IN era * 146097 + doe - 719468

\* the days of month m in year y
DaysInMonth(y, m) ==
    IF m = 2 THEN (IF y % 4 = 0 /\ (y % 100 # 0 \/ y % 400 = 0) THEN 29 ELSE 28)
    ELSE IF m \in {4, 6, 9, 11} THEN 30 ELSE 31

\* Date.prototype.toISOString of the instant n + f / 1000 seconds after
\* REFERENCE_DATE, for the years 0000 to 9999: YYYY-MM-DDTHH:mm:ss.sssZ
toISOString(date) ==
    LET civil == CivilFromDays(ReferenceDay + date.n \div 86400)
        second == date.n % 86400
    IN PadDigits(civil.y, 4) \o <<45>> \o PadDigits(civil.m, 2) \o <<45>> \o
       PadDigits(civil.d, 2) \o <<84>> \o PadDigits(second \div 3600, 2) \o <<58>> \o
       PadDigits((second \div 60) % 60, 2) \o <<58>> \o PadDigits(second % 60, 2) \o
       <<46>> \o PadDigits(date.f, 3) \o <<90>>

\* new Date(text) for a text in the format of toISOString: [nan, n, f].  The
\* other formats the runtime's parser accepts are not written by the encoder;
\* here they give an invalid date.
ParseDate(text) ==
    LET part(from, to) == SubSeq(text, from, to)
        y == DigitsValue(part(1, 4))
        m == DigitsValue(part(6, 7))
        d == DigitsValue(part(9, 10))
        h == DigitsValue(part(12, 13))
        mi == DigitsValue(part(15, 16))
        sec == DigitsValue(part(18, 19))
    IN IF /\ Len(text) = 24
          /\ IsDigits(part(1, 4)) /\ text[5] = 45 /\ IsDigits(part(6, 7))
          /\ text[8] = 45 /\ IsDigits(part(9, 10)) /\ text[11] = 84
          /\ IsDigits(part(12, 13)) /\ text[14] = 58 /\ IsDigits(part(15, 16))
          /\ text[17] = 58 /\ IsDigits(part(18, 19)) /\ text[20] = 46
          /\ IsDigits(part(21, 23)) /\ text[24] = 90
          /\ m >= 1 /\ m <= 12 /\ d >= 1 /\ d <= DaysInMonth(y, m)
          /\ h <= 23 /\ mi <= 59 /\ sec <= 59
       THEN [nan |-> FALSE,
             n |-> (DaysFromCivil(y, m, d) - ReferenceDay) * 86400
                   + h * 3600 + mi * 60 + sec,
             f |-> DigitsValue(part(21, 23))]
       ELSE [nan |-> TRUE, n |-> 0, f |-> 0]

\* Number(text) for decimal literals without exponent: [nan, n, f], the
\* number n + f / 1000.  Surrounding white space is ignored and the empty text
\* is 0.  Texts with an exponent, a radix prefix or "Infinity" are not
\* written by the encoder for the numbers used here; they give NaN here.
StringToNumber(text) ==
    LET t == Trim(text)
        signed == Len(t) > 0 /\ t[1] \in {43, 45}
        negative == Len(t) > 0 /\ t[1] = 45
        body == IF signed THEN Tail(t) ELSE t
        dots == {i \in 1..Len(body) : body[i] = 46}
        dot == IF dots = {} THEN Len(body) + 1 ELSE CHOOSE i \in dots : \A j \in dots : i <= j
        whole == SubSeq(body, 1, dot - 1)
        fraction == SubSeq(body, dot + 1, Len(body))
        wellFormed == /\ Len(whole) + Len(fraction) > 0
                      /\ whole = <<>> \/ IsDigits(whole)
                      /\ fraction = <<>> \/ IsDigits(fraction)
                      /\ Len(whole) <= 9 /\ Len(fraction) <= 3
        i == DigitsValue(whole)
        f == DigitsValue(fraction \o [k \in 1..(3 - Len(fraction)) |-> 48])
    IN IF t = <<>> THEN [nan |-> FALSE, n |-> 0, f |-> 0]
       ELSE IF ~wellFormed THEN [nan |-> TRUE, n |-> 0, f |-> 0]
       ELSE IF negative /\ f > 0 THEN [nan |-> FALSE, n |-> 0 - i - 1, f |-> 1000 - f]
       ELSE [nan |-> FALSE, n |-> IF negative THEN 0 - i ELSE i, f |-> f]

\* the base64 alphabet: the character of a 6-bit value
Base64Char(v) ==
    IF v < 26 THEN 65 + v
    ELSE IF v < 52 THEN 97 + (v - 26)
    ELSE IF v < 62 THEN 48 + (v - 52)
    ELSE IF v = 62 THEN 43 ELSE 47

\* the 6-bit value of a character, Undefined outside the alphabet ("-" and
\* "_" of the URL-safe alphabet are accepted when decoding)
Base64Value(c) ==
    IF c >= 65 /\ c <= 90 THEN c - 65
    ELSE IF c >= 97 /\ c <= 122 THEN c - 97 + 26
    ELSE IF c >= 48 /\ c <= 57 THEN c - 48 + 52
    ELSE IF c \in {43, 45} THEN 62
    ELSE IF c \in {47, 95} THEN 63
    ELSE Undefined

\* buffer.toString('base64')
ToBase64(bytes) ==
    LET group(g) ==
            LET at(j) == IF 3 * g + j <= Len(bytes) THEN bytes[3 * g + j] ELSE 0
                have == Min(3, Len(bytes) - 3 * g)
            IN << Base64Char(at(1) \div 4),
                  Base64Char((at(1) % 4) * 16 + at(2) \div 16),
                  IF have >= 2 THEN Base64Char((at(2) % 16) * 4 + at(3) \div 64) ELSE 61,
                  IF have >= 3 THEN Base64Char(at(3) % 64) ELSE 61 >>
    IN Concat([g \in 1..((Len(bytes) + 2) \div 3) |-> group(g - 1)])

\* Buffer.from(text, 'base64'): the text ends at the first "=", characters
\* outside the alphabet are skipped, an incomplete last group gives the
\* bytes it holds in full
FromBase64(text) ==
    LET pads == {i \in 1..Len(text) : text[i] = 61}
        end == IF pads = {} THEN Len(text) ELSE (CHOOSE i \in pads : \A j \in pads : i <= j) - 1
        sextets == Concat([i \in 1..end |->
                      IF Base64Value(text[i]) = Undefined THEN <<>>
                      ELSE <<Base64Value(text[i])>>])
        count == (Len(sextets) \div 4) * 3 +
                 (IF Len(sextets) % 4 = 0 THEN 0 ELSE (Len(sextets) % 4) - 1)
        six(j) == IF j <= Len(sextets) THEN sextets[j] ELSE 0
        byte(b) ==
            LET g == 4 * ((b - 1) \div 3)
            IN CASE (b - 1) % 3 = 0 -> six(g + 1) * 4 + six(g + 2) \div 16
                 [] (b - 1) % 3 = 1 -> (six(g + 2) % 16) * 16 + six(g + 3) \div 4
                 [] OTHER -> (six(g + 3) % 4) * 64 + six(g + 4)
    IN [b \in 1..count |-> byte(b)]

(***************************************************************************)
(* structs/plist.struct.ts                                                 *)
(***************************************************************************)
\* `<${ tag }>`, `</${ tag }>` and `<${ tag }/>`
OpenTag(tag) == <<60>> \o tag \o <<62>>
CloseTag(tag) == <<60, 47>> \o tag \o <<62>>
EmptyTag(tag) == <<60>> \o tag \o <<47, 62>>

\* the tag names
TagString == <<115, 116, 114, 105, 110, 103>>
TagInteger == <<105, 110, 116, 101, 103, 101, 114>>
TagReal == <<114, 101, 97, 108>>
TagTrue == <<116, 114, 117, 101>>
TagFalse == <<102, 97, 108, 115, 101>>
TagDate == <<100, 97, 116, 101>>
TagData == <<100, 97, 116, 97>>
TagArray == <<97, 114, 114, 97, 121>>
TagDict == <<100, 105, 99, 116>>
TagKey == <<107, 101, 121>>

\* encodeTag(tag, value) for a value that is a string
encodeTag(tag, text) ==
    IF text = <<>> THEN EmptyTag(tag)
    ELSE OpenTag(tag) \o text \o CloseTag(tag)

\* encodeTag('', value) for a boolean
encodeBooleanTag(b) == IF b THEN EmptyTag(TagTrue) ELSE EmptyTag(TagFalse)

\* the text of the first error among results, "" when there is none
FirstError(results) ==
    IF \A i \in 1..Len(results) : results[i].err = "" THEN ""
    ELSE results[CHOOSE i \in 1..Len(results) :
                    /\ results[i].err # ""
                    /\ \A j \in 1..(i - 1) : results[j].err = ""].err

RECURSIVE encodeValue(_)
\* [err, text].  A Set is an object that is no Date, Buffer or Array: it takes
\* the last branch, where Object.entries gives no entry for it.
encodeValue(v) ==
    CASE v.t = "string" -> [err |-> "", text |-> encodeTag(TagString, encodeEscaping(v.s))]
      [] v.t = "number" ->
            [err |-> "",
             text |-> encodeTag(IF v.f = 0 THEN TagInteger ELSE TagReal,
                                NumberToString(v.n, v.f))]
      [] v.t = "bool" -> [err |-> "", text |-> encodeBooleanTag(v.n = 1)]
      [] v.t = "date" -> [err |-> "", text |-> encodeTag(TagDate, toISOString(v))]
      [] v.t \in {"buffer", "uid"} -> [err |-> "", text |-> encodeTag(TagData, ToBase64(v.s))]
      [] v.t = "array" ->
            Bind([i \in 1..Len(v.c) |-> encodeValue(v.c[i])], LAMBDA items :
                IF FirstError(items) # "" THEN [err |-> FirstError(items), text |-> <<>>]
                ELSE [err |-> "",
                      text |-> encodeTag(TagArray,
                                   Concat([i \in 1..Len(items) |-> items[i].text]))])
      [] v.t \in {"dict", "set"} ->
            Bind([i \in 1..Len(v.k) |-> encodeValue(v.c[i])], LAMBDA items :
                IF FirstError(items) # "" THEN [err |-> FirstError(items), text |-> <<>>]
                ELSE [err |-> "",
                      text |-> encodeTag(TagDict,
                                   Concat([i \in 1..Len(items) |->
                                       encodeTag(TagKey, encodeEscaping(v.k[i]))
                                       \o items[i].text]))])
      [] OTHER -> [err |-> "XMLParsingError: Unsupported data type", text |-> <<>>]

\* the first match of /<(\/?)([a-zA-Z0-9]+)([^\/>]*)(\/?)>/ that starts at
\* position p (counted from 0):
\* [found, index, end, closing, tag, selfClose], end being the regex's
\* lastIndex after the match
TagMatchAt(data, p) ==
    LET closing == p + 2 <= Len(data) /\ data[p + 2] = 47
        nameStart == IF closing THEN p + 3 ELSE p + 2
        afterName == {j \in nameStart..Len(data) : ~IsAlnum(data[j])}
        nameEnd == IF afterName = {} THEN Len(data) + 1
                   ELSE CHOOSE j \in afterName : \A k \in afterName : j <= k
        stops == {j \in nameEnd..Len(data) : data[j] \in {47, 62}}
        stop == IF stops = {} THEN Len(data) + 1
                ELSE CHOOSE j \in stops : \A k \in stops : j <= k
        selfClose == stop <= Len(data) /\ data[stop] = 47
        found == /\ p + 1 <= Len(data) /\ data[p + 1] = 60
                 /\ nameEnd > nameStart
                 /\ stop <= Len(data)
                 /\ selfClose => (stop + 1 <= Len(data) /\ data[stop + 1] = 62)
    IN [found |-> found,
        index |-> p,
        end |-> IF selfClose THEN stop + 1 ELSE stop,
        closing |-> closing,
        tag |-> IF found THEN SubSeq(data, nameStart, nameEnd - 1) ELSE <<>>,
        selfClose |-> selfClose]

NoMatch ==
    [found |-> FALSE, index |-> 0, end |-> 0, closing |-> FALSE, tag |-> <<>>,
     selfClose |-> FALSE]

\* regex.exec(data) with regex.lastIndex = from
NextTag(data, from) ==
    LET starts == {p \in from..(Len(data) - 1) :
                      data[p + 1] = 60 /\ TagMatchAt(data, p).found}
    IN IF starts = {} THEN NoMatch
       ELSE TagMatchAt(data, CHOOSE p \in starts : \A r \in starts : p <= r)

\* decodeContentOfTag(data, startOffset, endOffset)
decodeContentOfTag(data, startOffset, endOffset) ==
    decodeEscaping(Trim(Slice(data, startOffset, endOffset)))

\* decodeClosingTag(data, regex, startTag) with regex.lastIndex = from:
\* [err, index, offset, end]
decodeClosingTag(data, from, startTag) ==
    Bind(NextTag(data, from), LAMBDA nextMatch :
        IF ~nextMatch.found
        THEN [err |-> "XMLParsingError: Missing or invalid end tag",
              index |-> 0, offset |-> from, end |-> 0]
        ELSE IF nextMatch.tag # startTag
        THEN [err |-> "XMLParsingError: Mismatched tags",
              index |-> 0, offset |-> from, end |-> nextMatch.end]
        ELSE [err |-> "", index |-> nextMatch.index, offset |-> from,
              end |-> nextMatch.end])

\* decodeTag(data, regex, startTag, selfClose) with regex.lastIndex = from:
\* [err, content, end], end being regex.lastIndex afterwards
decodeTag(data, from, startTag, selfClose) ==
    IF selfClose THEN [err |-> "", content |-> <<>>, end |-> from]
    ELSE Bind(decodeClosingTag(data, from, startTag), LAMBDA endTag :
            IF endTag.err # ""
            THEN [err |-> endTag.err, content |-> <<>>, end |-> endTag.end]
            ELSE [err |-> "",
                  content |-> decodeContentOfTag(data, endTag.offset, endTag.index),
                  end |-> endTag.end])

\* decodeDate(content, tagName) of plist.struct.ts: [err, val]
decodeDateContent(content) ==
    Bind(ParseDate(content), LAMBDA date :
        IF date.nan THEN [err |-> "XMLParsingError: Invalid date data", val |-> Undef]
        ELSE [err |-> "", val |-> Date(date.n, date.f, 0)])

\* decodeNumber(content, tagName): [err, val]
decodeNumber(content) ==
    Bind(StringToNumber(content), LAMBDA number :
        IF number.nan \/ content = <<>>
        THEN [err |-> "XMLParsingError: Invalid number data", val |-> Undef]
        ELSE [err |-> "", val |-> Num(number.n, number.f)])

\* decodePrimitive(content, tagName): [err, val]
decodePrimitive(content, tagName) ==
    CASE tagName = TagString -> [err |-> "", val |-> Str(content)]
      [] tagName \in {TagInteger, TagReal} -> decodeNumber(content)
      [] tagName = TagTrue -> [err |-> "", val |-> Bool(TRUE)]
      [] tagName = TagFalse -> [err |-> "", val |-> Bool(FALSE)]
      [] tagName = TagDate -> decodeDateContent(content)
      [] tagName = TagData -> [err |-> "", val |-> Buf(FromBase64(Trim(content)), 0)]
      [] OTHER -> [err |-> "XMLParsingError: Unsupported tag", val |-> Undef]

(***************************************************************************)
(* services/plist.service.ts                                               *)
(***************************************************************************)
objectTags == {TagDict, TagArray}

\* plist.replace(/>\s+</g, '><'): a run of white space that stands between
\* a ">" and a "<" is removed
CollapseBetweenTags(plist) ==
    LET between(i) ==
            /\ \E a \in 1..(i - 1) :
                  plist[a] = 62 /\ \A j \in (a + 1)..i : IsSpace(plist[j])
            /\ \E b \in (i + 1)..Len(plist) :
                  plist[b] = 60 /\ \A j \in i..(b - 1) : IsSpace(plist[j])
    IN Concat([i \in 1..Len(plist) |->
                  IF IsSpace(plist[i]) /\ between(i) THEN <<>> ELSE <<plist[i]>>])

PlistOpen == <<60, 112, 108, 105, 115, 116>>
PlistClose == <<60, 47, 112, 108, 105, 115, 116, 62>>

\* the positions (counted from 0) from `from` on where word stands in text
Occurrences(text, word, from) ==
    {p \in from..(Len(text) - Len(word)) : StartsWithAt(text, word, p)}

\* the smallest member of a non-empty set of numbers
Least(set) == CHOOSE p \in set : \A r \in set : p <= r

\* a decodePlistContent that takes the text up to its end for the content
\* when no </plist> follows
decodePlistContentToEnd(plist) ==
    Bind(Trim(CollapseBetweenTags(plist)), LAMBDA text :
        LET opens == Occurrences(text, PlistOpen, 0)
            open == Least(opens)
            ends == {p \in (open + Len(PlistOpen))..(Len(text) - 1) : text[p + 1] = 62}
            contentStart == Least(ends) + 1
            closes == Occurrences(text, PlistClose, contentStart)
        IN IF opens = {} \/ ends = {}
           THEN [err |-> "XMLParsingError: Invalid plist", content |-> <<>>]
           ELSE [err |-> "",
                 content |-> Slice(text, contentStart,
                                   IF closes = {} THEN Len(text) ELSE Least(closes))])

\* decodePlistContent(plist): [err, content], the first match of
\* /<plist[^>]*>(.*?)<\/plist>/s
decodePlistContent(plist) ==
    Bind(Trim(CollapseBetweenTags(plist)), LAMBDA text :
        LET opens == Occurrences(text, PlistOpen, 0)
            open == Least(opens)
            ends == {p \in (open + Len(PlistOpen))..(Len(text) - 1) : text[p + 1] = 62}
            contentStart == Least(ends) + 1
            closes == Occurrences(text, PlistClose, contentStart)
        IN IF opens = {} \/ ends = {} \/ closes = {}
           THEN [err |-> "XMLParsingError: Invalid plist", content |-> <<>>]
           ELSE [err |-> "", content |-> Slice(text, contentStart, Least(closes))])

\* createNode(tag); slot is the place the node's content has in the content
\* of the node below it on the stack, which holds it by reference
createNode(tag) == [tag |-> tag, k |-> <<>>, c |-> <<>>, slot |-> 0]

\* node.content as a value
NodeContent(node) ==
    IF node.tag = TagDict THEN Dict(node.k, node.c, 0) ELSE Arr(node.c, 0)

\* pushToObject(value, current, key): [err, node], node being current
\* afterwards
pushToObject(val, current, key) ==
    IF current.tag # TagDict
    THEN [err |-> "", node |-> [current EXCEPT !.c = Append(@, val)]]
    ELSE IF key = <<>>
    THEN [err |-> "XMLParsingError: Object key cannot be empty", node |-> current]
    ELSE [err |-> "", node |-> AssignKey(current, key, val)]

\* where pushToObject has put the value it was given last
SlotOf(node, key) ==
    IF node.tag = TagDict THEN CHOOSE j \in 1..Len(node.k) : node.k[j] = key
    ELSE Len(node.c)

\* stack.pop(): the content the popped node has built is what the node
\* below holds in the node's slot
PopNode(stack) ==
    Bind(stack[Len(stack)], LAMBDA node :
        [i \in 1..(Len(stack) - 1) |->
            IF i = Len(stack) - 1
            THEN [stack[i] EXCEPT !.c[node.slot] = NodeContent(node)]
            ELSE stack[i]])

RECURSIVE RootContent(_)
\* root.content, with the contents of the nodes still on the stack
RootContent(stack) ==
    IF Len(stack) = 1 THEN NodeContent(stack[1]) ELSE RootContent(PopNode(stack))

\* the loop's state after one pass: [err, done, from, stack]
Pass(err, done, from, stack) ==
    [err |-> err, done |-> done, from |-> from, stack |-> stack]

\* pushes a new node for tag into the current node under key, and on the
\* stack unless the tag closes itself
PushNode(stack, from, tag, selfClose, key) ==
    Bind(pushToObject(NodeContent(createNode(tag)), stack[Len(stack)], key),
         LAMBDA pushed :
        IF pushed.err # "" THEN Pass(pushed.err, TRUE, from, stack)
        ELSE Pass("", FALSE, from,
                  IF selfClose THEN ReplaceTop(stack, pushed.node)
                  ELSE Append(ReplaceTop(stack, pushed.node),
                              [createNode(tag) EXCEPT
                                  !.slot = SlotOf(pushed.node, key)])))

\* pushToObject(decodePrimitive(decodeTag(data, regex, tag, selfClose), tag),
\* current, key)
PushPrimitive(data, stack, from, tag, selfClose, key) ==
    Bind(decodeTag(data, from, tag, selfClose), LAMBDA content :
        IF content.err # "" THEN Pass(content.err, TRUE, content.end, stack)
        ELSE Bind(decodePrimitive(content.content, tag), LAMBDA primitive :
            IF primitive.err # "" THEN Pass(primitive.err, TRUE, content.end, stack)
            ELSE Bind(pushToObject(primitive.val, stack[Len(stack)], key),
                      LAMBDA pushed :
                IF pushed.err # "" THEN Pass(pushed.err, TRUE, content.end, stack)
                ELSE Pass("", FALSE, content.end, ReplaceTop(stack, pushed.node)))))

\* decodeKey(data, regex, startTag, current, stack) with regex.lastIndex = from
decodeKey(data, from, startTag, stack) ==
    Bind(decodeTag(data, from, startTag, FALSE), LAMBDA key :
        IF key.err # "" THEN Pass(key.err, TRUE, key.end, stack)
        ELSE IF key.content = <<>>
        THEN Pass("XMLParsingError: Extracted key is empty", TRUE, key.end, stack)
        ELSE Bind(NextTag(data, key.end), LAMBDA nextValue :
            IF ~nextValue.found
            THEN Pass("XMLParsingError: Value not found for key", TRUE, key.end, stack)
            ELSE IF nextValue.tag \in objectTags
            THEN PushNode(stack, nextValue.end, nextValue.tag, nextValue.selfClose,
                          key.content)
            ELSE PushPrimitive(data, stack, nextValue.end, nextValue.tag,
                               nextValue.selfClose, key.content)))

\* a pass that takes whatever tag it meets in a dict for the key
decodeObjectsPassAnyKey(data, match, stack) ==
    IF match.closing /\ match.tag \in objectTags
    THEN IF Len(stack) = 1 THEN Pass("", TRUE, match.end, stack)
         ELSE Pass("", FALSE, match.end, PopNode(stack))
    ELSE IF stack[Len(stack)].tag = TagDict
    THEN decodeKey(data, match.end, match.tag, stack)
    ELSE IF match.tag \in objectTags
    THEN PushNode(stack, match.end, match.tag, match.selfClose, <<>>)
    ELSE PushPrimitive(data, stack, match.end, match.tag, match.selfClose, <<>>)

\* one pass of the loop of decodeObjects, for the match the loop's
\* regex.exec has found
decodeObjectsPass(data, match, stack) ==
    IF match.closing /\ match.tag \in objectTags
    THEN IF Len(stack) = 1 THEN Pass("", TRUE, match.end, stack)
         ELSE Pass("", FALSE, match.end, PopNode(stack))
    ELSE IF stack[Len(stack)].tag = TagDict /\ match.tag # TagKey
    THEN Pass("XMLParsingError: Invalid structure", TRUE, match.end, stack)
    ELSE IF stack[Len(stack)].tag = TagDict
    THEN decodeKey(data, match.end, match.tag, stack)
    ELSE IF match.tag \in objectTags
    THEN PushNode(stack, match.end, match.tag, match.selfClose, <<>>)
    ELSE PushPrimitive(data, stack, match.end, match.tag, match.selfClose, <<>>)

\* what one pass of the loop of decodeObjects met and how it ended: the tag
\* of the node on top of the stack, the match, and the error it threw
Met(stack, match, pass) ==
    [current |-> stack[Len(stack)].tag, match |-> match, err |-> pass.err]

RECURSIVE decodeObjectsLoop(_, _, _)
\* the loop of decodeObjects from regex.lastIndex = from on:
\* [err, val, passes], passes being what the passes of the loop met
decodeObjectsLoop(data, from, stack) ==
    Bind(NextTag(data, from), LAMBDA match :
        IF ~match.found
        THEN [err |-> "", val |-> RootContent(stack), passes |-> <<>>]
        ELSE Bind(decodeObjectsPass(data, match, stack), LAMBDA pass :
            IF pass.err # ""
            THEN [err |-> pass.err, val |-> Undef,
                  passes |-> <<Met(stack, match, pass)>>]
            ELSE IF pass.done
            THEN [err |-> "", val |-> RootContent(pass.stack),
                  passes |-> <<Met(stack, match, pass)>>]
            ELSE Bind(decodeObjectsLoop(data, pass.from, pass.stack), LAMBDA rest :
                    [rest EXCEPT !.passes = <<Met(stack, match, pass)>> \o @])))

\* decodeObjects(data, regex, tag) with regex.lastIndex = from:
\* [err, val, passes]
decodeObjects(data, from, tag) == decodeObjectsLoop(data, from, <<createNode(tag)>>)

\* decodeTags(contents): [err, val, passes]
decodeTags(contents) ==
    Bind(NextTag(contents, 0), LAMBDA tagData :
        IF ~tagData.found
        THEN [err |-> "XMLParsingError: Malformed XML", val |-> Undef, passes |-> <<>>]
        ELSE IF tagData.tag \in objectTags
        THEN decodeObjects(contents, tagData.end, tagData.tag)
        ELSE Bind(decodeTag(contents, tagData.end, tagData.tag, tagData.selfClose),
                  LAMBDA content :
            IF content.err # ""
            THEN [err |-> content.err, val |-> Undef, passes |-> <<>>]
            ELSE Bind(decodePrimitive(content.content, tagData.tag), LAMBDA primitive :
                    [err |-> primitive.err, val |-> primitive.val, passes |-> <<>>])))

\* the three literals of encodePlist
XmlVersion ==
    <<60, 63, 120, 109, 108, 32, 118, 101, 114, 115, 105, 111, 110, 61, 34,
      49, 46, 48, 34, 32, 101, 110, 99, 111, 100, 105, 110, 103, 61, 34,
      85, 84, 70, 45, 56, 34, 63, 62>>
XmlDoctype ==
    <<60, 33, 68, 79, 67, 84, 89, 80, 69, 32, 112, 108, 105, 115, 116, 32,
      80, 85, 66, 76, 73, 67, 32, 34, 45, 47, 47, 65, 112, 112, 108, 101,
      47, 47, 68, 84, 68, 32, 80, 76, 73, 83, 84, 32, 49, 46, 48, 47, 47,
      69, 78, 34, 32, 34, 104, 116, 116, 112, 58, 47, 47, 119, 119, 119,
      46, 97, 112, 112, 108, 101, 46, 99, 111, 109, 47, 68, 84, 68, 115,
      47, 80, 114, 111, 112, 101, 114, 116, 121, 76, 105, 115, 116, 45, 49,
      46, 48, 46, 100, 116, 100, 34, 62>>
XmlPlist ==
    <<60, 112, 108, 105, 115, 116, 32, 118, 101, 114, 115, 105, 111, 110,
      61, 34, 49, 46, 48, 34, 62>>

\* encodePlist(data): [err, text]
encodePlist(v) ==
    IF v.t = "null" THEN [err |-> "XMLParsingError: Invalid input", text |-> <<>>]
    ELSE Bind(encodeValue(v), LAMBDA encoded :
            IF encoded.err # "" THEN encoded
            ELSE [err |-> "",
                  text |-> XmlVersion \o XmlDoctype \o XmlPlist \o encoded.text
                           \o PlistClose])

\* decodePlist(plist) for a string: [err, val, passes]
decodePlist(plist) ==
    Bind(decodePlistContent(plist), LAMBDA contents :
        IF contents.err # "" THEN [err |-> contents.err, val |-> Undef, passes |-> <<>>]
        ELSE decodeTags(contents.content))

(***************************************************************************)
(* The values the calls are made with                                      *)
(***************************************************************************)
\* count consecutive numbers from first
Numbers(first, count) == [i \in 1..count |-> first + i - 1]

\* count ASCII letters, count code units outside ASCII
Letters(count) == [i \in 1..count |-> 97 + (i % 26)]
Greek(count) == [i \in 1..count |-> 1023 - (i % 2)]

Scalars ==
    << Null, Bool(TRUE), Bool(FALSE),
       Integer(0), Integer(42), Integer(255), Integer(256), Integer(65536),
       Integer(0 - 1), Num(1, 500), Num(0 - 2, 500),
       Str(<<>>), Str(<<97>>), Str(Letters(14)), Str(Letters(15)),
       Str(Greek(2)), Str(Greek(7)), Str(Greek(8)), Str(Greek(15)),
       Date(10, 0, 1), Date(10, 500, 1), Date(0 - 10, 0, 1),
       Buf(<<>>, 1), Buf(<<1, 2, 3>>, 1), Buf(Numbers(1, 15), 1),
       Uid(<<7>>, 1), Uid(Numbers(1, 14), 1), Uid(Numbers(1, 15), 1),
       Uid(Numbers(1, 16), 1), Uid(<<>>, 1), Undef >>

Containers ==
    << Arr(<<>>, 1),
       Arr(<<Integer(1), Str(<<97>>), Integer(1), Arr(<<Bool(TRUE)>>, 2)>>, 1),
       \* the same array twice, and an equal but different array
       Arr(<<Arr(<<Integer(5)>>, 2), Arr(<<Integer(5)>>, 2), Arr(<<Integer(5)>>, 3)>>, 1),
       \* two equal Dates that are different objects, then the first again
       Arr(<<Date(10, 0, 2), Date(10, 0, 3), Date(10, 0, 2)>>, 1),
       \* two equal Buffers that are different objects
       Arr(<<Buf(<<1, 2>>, 2), Buf(<<1, 2>>, 3)>>, 1),
       Arr(<<Uid(<<1, 2>>, 2), Integer(3)>>, 1),
       Arr(<<Uid(Numbers(16, 16), 2)>>, 1),
       Arr([i \in 1..15 |-> Integer(i)], 1),
       Arr(<<Arr(<<Arr(<<Null>>, 3)>>, 2)>>, 1),
       Arr(<<Integer(1), Undef>>, 1),
       SetOf(<<>>, 1),
       SetOf(<<Integer(1), Str(<<98>>)>>, 1),
       Arr(<<SetOf(<<Integer(1), Integer(2)>>, 2), Integer(2)>>, 1),
       Dict(<<>>, <<>>, 1),
       Dict(<<<<97>>, <<98>>>>, <<Str(<<98>>), Null>>, 1),
       Dict(<<<<97>>>>, <<Dict(<<<<97>>>>, <<Integer(1)>>, 2)>>, 1),
       Dict(<<<<107>>, <<118>>>>,
            <<Arr(<<Str(<<107>>), Str(<<118>>)>>, 2), Uid(<<9>>, 3)>>, 1),
       Dict(<<<<100>>>>, <<Date(3, 250, 2)>>, 1) >>

\* containers with many distinct elements
LargeContainers ==
    << Arr([i \in 1..ManyElements |-> Integer(i)], 1),
       SetOf([i \in 1..ManyElements |-> Integer(i)], 1),
       Arr(<<SetOf([i \in 1..ManyElements |-> Integer(i)], 2)>>, 1) >>

\* text with white space at its ends, of white space only, and with the
\* characters and entities the XML codec escapes
Texts ==
    << Str(<<32, 97>>), Str(<<97, 32>>), Str(<<32>>), Str(<<97, 32, 98>>),
       Str(<<10, 97, 9>>),
       Str(<<60, 38, 62, 34, 39>>),                 \* <&>"'
       Str(<<38, 108, 116, 59>>),                   \* &lt;
       Str(<<38, 97, 109, 112, 59, 97, 109, 112, 59>>),  \* &amp;amp;
       Str(<<60, 47, 112, 108, 105, 115, 116, 62>>),     \* </plist>
       Dict(<<<<>>>>, <<Integer(1)>>, 1),
       Dict(<<<<32, 107>>>>, <<Integer(1)>>, 1),
       Dict(<<<<107, 32>>>>, <<Str(<<118>>)>>, 1),
       Dict(<<<<32>>>>, <<Integer(1)>>, 1),
       Dict(<<<<97, 60, 98>>, <<107>>>>, <<Arr(<<>>, 2), Dict(<<>>, <<>>, 3)>>, 1),
       Arr(<<Str(<<>>), Str(<<32, 32>>), Buf(<<>>, 2),
             Dict(<<<<107>>>>, <<Arr(<<Num(0, 250)>>, 4)>>, 3)>>, 1) >>

\* the values encodePlistXML is called with
XmlInputs == Scalars \o Containers \o Texts

Inputs == Scalars \o Containers \o LargeContainers \o Texts

\* the headers a buffer handed to the decoder may carry instead of its own
OtherMagic == <<98, 112, 108, 105, 115, 120>>
OtherVersion == <<48, 49>>
Headers ==
    { <<MagicBytes, OtherVersion>>, <<OtherMagic, VersionBytes>>,
      <<OtherMagic, OtherVersion>> }

\* the texts a tag of a document handed to the XML decoder may be replaced
\* by: nothing, and opening and closing tags
TagReplacements ==
    { <<>>,
      <<60, 107, 101, 121, 62>>, <<60, 47, 107, 101, 121, 62>>,
      <<60, 115, 116, 114, 105, 110, 103, 62>>, <<60, 47, 115, 116, 114, 105, 110, 103, 62>>,
      <<60, 97, 114, 114, 97, 121, 62>>, <<60, 47, 97, 114, 114, 97, 121, 62>>,
      <<60, 100, 105, 99, 116, 62>>, <<60, 47, 100, 105, 99, 116, 62>>,
      <<60, 112, 108, 105, 115, 116, 62>>, <<60, 102, 111, 111, 62>> }

\* the bytes a buffer handed to the decoder may have overwritten
TamperBytes == {0, 1, 255}
\* only buffers up to this length are tampered with
MaxTamperLength == 72

(***************************************************************************)
(* The state: one run is a value, its encoding, the buffer the decoder is  *)
(* given (the encoding, or the encoding with another header or with one    *)
(* byte overwritten) and the decoder's progress; or a value, its XML text  *)
(* and what the XML decoder makes of the text.                             *)
(***************************************************************************)
VARIABLES
    pc,       \* "input", "encoded", "decoding" or "done"; "xmlEncoded" or
              \* "xmlDone" for the XML calls
    value,    \* the value handed to encodePlistBinary
    enc,      \* what encodePlistBinary returned or threw
    data,     \* the buffer handed to decodePlistBinary
    changed,  \* how data differs from enc.bytes: "no", "header", "byte" or
              \* "moved";
              \* "tag" when document differs from xml.text; "earlier" when
              \* the buffer or the text of an earlier call was changed
    table,    \* the decoder's offsets table and objectReferenceSize
    dec,      \* the decoder's call stack, memo map and outcome
    xml,      \* what encodePlistXML returned or threw
    document, \* the text handed to decodePlistXML
    parsed,   \* what decodePlistXML returned or threw
    earlier,  \* the calls that ended before the caller went on to further
              \* calls, each with its argument and its outcome
    unit      \* a call of one function of the codec on its own: the function,
              \* its argument and what it returned or threw

vars == <<pc, value, enc, data, changed, table, dec, xml, document, parsed,
          earlier, unit>>

NoEncoding == [err |-> "", bytes |-> <<>>, info |-> <<>>, objects |-> <<>>,
               offsets |-> <<>>, chunks |-> 0, bodyLength |-> 0]
NoTable == [offsets |-> <<>>, offsetSize |-> 0]
Idle == [status |-> "idle", stack |-> <<>>, map |-> <<>>, nextId |-> 0,
         val |-> Undef, err |-> "", outside |-> FALSE]

NoText == [err |-> "", text |-> <<>>]
NoUnit == [of |-> "none", at |-> "input", arg |-> <<>>, mid |-> <<>>, out |-> <<>>]
NotParsed == [status |-> "idle", err |-> "", val |-> Undef, passes |-> <<>>]

Init ==
    /\ pc = "input"
    /\ \E i \in 1..Len(Inputs) : value = Inputs[i]
    /\ enc = NoEncoding
    /\ data = <<>>
    /\ changed = "no"
    /\ table = NoTable
    /\ dec = Idle
    /\ xml = NoText
    /\ document = <<>>
    /\ parsed = NotParsed
    /\ earlier = {}
    /\ unit = NoUnit

\* encodePlistBinary(value)
EncodeBinary ==
    /\ pc = "input"
    /\ enc' = encodeBinary(value)
    /\ data' = enc'.bytes
    /\ pc' = IF enc'.err # "" THEN "done" ELSE "encoded"
    /\ UNCHANGED <<value, changed, table, dec, xml, document, parsed, earlier, unit>>

\* the buffer gets another magic or version before it is decoded
ReplaceHeader ==
    /\ pc = "encoded"
    /\ changed = "no"
    /\ \E h \in Headers :
          data' = headerToBuffer(h[1], h[2]) \o SubSeq(data, HeaderSize + 1, Len(data))
    /\ changed' = "header"
    /\ UNCHANGED <<pc, value, enc, table, dec, xml, document, parsed, earlier, unit>>

\* one byte after the header is overwritten before the buffer is decoded
TamperByte ==
    /\ pc = "encoded"
    /\ changed = "no"
    /\ Len(data) <= MaxTamperLength
    /\ \E p \in (HeaderSize + 1)..Len(data) : \E b \in TamperBytes :
          /\ data[p] # b
          /\ data' = [data EXCEPT ![p] = b]
    /\ changed' = "byte"
    /\ UNCHANGED <<pc, value, enc, table, dec, xml, document, parsed, earlier, unit>>

\* the buffer is laid out anew before it is decoded: an unused byte follows
\* the header, every object stands one byte later, and the offsets table
\* and the trailer say so.  The offsets keep their width.
MoveObjects ==
    /\ pc = "encoded"
    /\ changed = "no"
    /\ \E trailer \in {trailerToObject(Subarray(data, Len(data) - TrailerSize, Len(data)))} :
       \E offsets \in {unpackOffsetTable(data, trailer)} :
       \E moved \in {WriteIntegers([i \in 1..Len(offsets.val) |-> offsets.val[i] + 1],
                                   trailer.offsetTableOffsetSize)} :
          /\ offsets.err = ""
          /\ moved.err = ""
          /\ data' = Subarray(data, 0, HeaderSize) \o <<0>>
                      \o Subarray(data, HeaderSize, trailer.offsetTableOffset)
                      \o moved.bytes
                      \o trailerToBuffer([trailer EXCEPT !.offsetTableOffset = @ + 1])
    /\ changed' = "moved"
    /\ UNCHANGED <<pc, value, enc, table, dec, xml, document, parsed, earlier, unit>>

\* a decoder whose offsets table outlives a call that threw: the next call
\* finds it and does not read its own
DecodeBeginOnOldTable ==
    /\ pc = "encoded"
    /\ \E begun \in {decodeBinaryBegin(data)} :
          /\ dec' = begun.dec
          /\ table' = IF dec.status = "threw" THEN table
                      ELSE [offsets |-> begun.offsets, offsetSize |-> begun.offsetSize]
          /\ pc' = IF begun.dec.status = "running" THEN "decoding" ELSE "done"
    /\ UNCHANGED <<value, enc, data, changed, xml, document, parsed, earlier, unit>>

\* decodePlistBinary(data), up to the first container
DecodeBegin ==
    /\ pc = "encoded"
    /\ \E begun \in {decodeBinaryBegin(data)} :
          /\ dec' = begun.dec
          /\ table' = [offsets |-> begun.offsets, offsetSize |-> begun.offsetSize]
          /\ pc' = IF begun.dec.status = "running" THEN "decoding" ELSE "done"
    /\ UNCHANGED <<value, enc, data, changed, xml, document, parsed, earlier, unit>>

\* a decoder that catches the BinaryParsingError of an object inside a
\* container and returns undefined
DecodeStepCatching ==
    /\ pc = "decoding"
    /\ \E step \in {Outside(decodeStep(data, table.offsets, table.offsetSize, dec),
                            dec.outside)} :
          dec' = IF step.status = "threw" /\ step.err = "BinaryParsingError"
                 THEN Returned(Undef) ELSE step
    /\ pc' = IF dec'.status = "running" THEN "decoding" ELSE "done"
    /\ UNCHANGED <<value, enc, data, changed, table, xml, document, parsed, earlier, unit>>

\* decodePlistBinary(data), one step of its innermost container
DecodeStep ==
    /\ pc = "decoding"
    /\ dec' = Outside(decodeStep(data, table.offsets, table.offsetSize, dec), dec.outside)
    /\ pc' = IF dec'.status = "running" THEN "decoding" ELSE "done"
    /\ UNCHANGED <<value, enc, data, changed, table, xml, document, parsed, earlier, unit>>

\* encodePlistXML(value)
EncodePlist ==
    /\ pc = "input"
    /\ \E i \in 1..Len(XmlInputs) : value = XmlInputs[i]
    /\ xml' = encodePlist(value)
    /\ document' = xml'.text
    /\ pc' = IF xml'.err # "" THEN "xmlDone" ELSE "xmlEncoded"
    /\ UNCHANGED <<value, enc, data, changed, table, dec, parsed, earlier, unit>>

\* the places (counted from 0) where a tag stands in a text
TagPlaces(text) ==
    {p \in 0..(Len(text) - 1) : text[p + 1] = 60 /\ TagMatchAt(text, p).found}

\* one tag of the document is replaced or removed before it is decoded
AlterTag ==
    /\ pc = "xmlEncoded"
    /\ changed = "no"
    /\ \E p \in TagPlaces(document) : \E r \in TagReplacements :
          \E tag \in {TagMatchAt(document, p)} :
              /\ Slice(document, tag.index, tag.end) # r
              /\ document' = Slice(document, 0, tag.index) \o r
                              \o Slice(document, tag.end, Len(document))
    /\ changed' = "tag"
    /\ UNCHANGED <<pc, value, enc, data, table, dec, xml, parsed, earlier, unit>>

\* decodePlistXML(document)
DecodePlist ==
    /\ pc = "xmlEncoded"
    /\ \E decoded \in {decodePlist(document)} :
          parsed' = [status |-> IF decoded.err # "" THEN "threw" ELSE "returned",
                     err |-> decoded.err,
                     val |-> decoded.val,
                     passes |-> decoded.passes]
    /\ pc' = "xmlDone"
    /\ UNCHANGED <<value, enc, data, changed, table, dec, xml, document, earlier, unit>>

\* a call of one of the four functions that has ended: the value or the text
\* it was given, and what it returned or threw
Call(op, val, text, err, bytes, out) ==
    [op |-> op, value |-> val, text |-> text, err |-> err, bytes |-> bytes,
     out |-> out]

\* the calls whose outcome the state holds
EndedCalls ==
    (IF enc # NoEncoding
     THEN {Call("encodePlistBinary", value, <<>>, enc.err, enc.bytes, Undef)}
     ELSE {})
    \cup (IF pc = "done" /\ dec.status \in {"returned", "threw"}
          THEN {Call("decodePlistBinary", Undef, data, dec.err, <<>>, dec.val)}
          ELSE {})
    \cup (IF xml # NoText
          THEN {Call("encodePlistXML", value, <<>>, xml.err, xml.text, Undef)}
          ELSE {})
    \cup (IF pc = "xmlDone" /\ parsed.status \in {"returned", "threw"}
          THEN {Call("decodePlistXML", Undef, document, parsed.err, <<>>, parsed.val)}
          ELSE {})

\* the caller goes on after a call has returned or thrown: it encodes the
\* value again, with either codec, or hands the same buffer or text to the
\* decoder again.  What the ended calls left behind stays where it is.
CallAgain ==
    /\ pc \in {"done", "xmlDone"}
    /\ earlier' = earlier \cup EndedCalls
    /\ \/ /\ pc' = "input"
          /\ changed' = IF changed = "no" THEN "no" ELSE "earlier"
       \/ /\ pc = "done" /\ dec.status # "idle"
          /\ pc' = "encoded"
          /\ UNCHANGED changed
       \/ /\ pc = "xmlDone" /\ parsed.status # "idle"
          /\ pc' = "xmlEncoded"
          /\ UNCHANGED changed
    /\ UNCHANGED <<value, enc, data, table, dec, xml, document, parsed, unit>>

Next ==
    \/ EncodeBinary
    \/ ReplaceHeader
    \/ TamperByte
    \/ MoveObjects
    \/ DecodeBegin
    \/ DecodeStep
    \/ EncodePlist
    \/ AlterTag
    \/ DecodePlist

Spec == Init /\ [][Next]_vars

\* the decoder's steps are the synchronous execution of one call: it always
\* takes its next step
FairSpec == Spec /\ WF_vars(DecodeBegin) /\ WF_vars(DecodeStep)

\* marks of the wide integers: one byte of 1, 127, 128 or 255 at any place
\* and zeros elsewhere; the same with 1 added; all bytes 255 from a place on;
\* and 127 followed by bytes of 255
WideMagnitudes ==
    {[i \in 1..9 |-> IF i = k THEN d ELSE 0] : k \in 1..9, d \in {1, 127, 128, 255}}
    \cup {[i \in 1..9 |-> IF i = k THEN d ELSE IF i = 9 THEN 1 ELSE 0] :
             k \in 1..8, d \in {1, 128}}
    \cup {[i \in 1..9 |-> IF i >= k THEN 255 ELSE 0] : k \in 1..9}
    \cup {[i \in 1..9 |-> IF i = k THEN 127 ELSE IF i > k THEN 255 ELSE 0] : k \in 1..8}

\* the integers the integer functions are called on: zero and every
\* magnitude with either sign
WideInputs ==
    {Wide(FALSE, <<>>)} \cup {[neg |-> s, mag |-> m] : s \in BOOLEAN, m \in WideMagnitudes}

UnitOf(of, arg) == [of |-> of, at |-> "input", arg |-> arg, mid |-> <<>>, out |-> <<>>]

\* integerByteLength(number)
IntegerByteLength ==
    /\ unit.of = "integer" /\ unit.at = "input"
    /\ unit' = [unit EXCEPT !.at = "measured", !.out = integerByteLengthWide(unit.arg)]
    /\ UNCHANGED <<pc, value, enc, data, changed, table, dec, xml, document, parsed,
                   earlier>>

\* encodeInteger(integer)
EncodeInteger ==
    /\ unit.of = "integer" /\ unit.at = "input"
    /\ unit' = [unit EXCEPT !.at = "encoded", !.mid = encodeIntegerWide(unit.arg)]
    /\ UNCHANGED <<pc, value, enc, data, changed, table, dec, xml, document, parsed,
                   earlier>>

\* decodeInteger(buffer, info, 1) on what encodeInteger returned, info taken
\* from the header byte
DecodeInteger ==
    /\ unit.of = "integer" /\ unit.at = "encoded"
    /\ unit.mid.err = ""
    /\ unit' = [unit EXCEPT
                  !.at = "decoded",
                  !.out = decodeIntegerWide(unit.mid.bytes,
                                            unpackDataHeader(unit.mid.bytes[1]).info, 1)]
    /\ UNCHANGED <<pc, value, enc, data, changed, table, dec, xml, document, parsed,
                   earlier>>

\* the strings the escape functions are called on: every string of up to
\* MaxEscapeLength of the characters & < ; # l t, which spell "&lt;" and
\* what looks like an entity without being one, and strings with the other
\* escaped characters and with "&amp;amp;"
EscapeAlphabet == {38, 60, 59, 35, 108, 116}
EscapeInputs ==
    UNION {[1..n -> EscapeAlphabet] : n \in 0..MaxEscapeLength}
    \cup { <<38, 97, 109, 112, 59, 97, 109, 112, 59>>,
           <<38, 35, 51, 57, 59>>,
           <<60, 38, 62, 34, 39>>,
           <<97, 38, 113, 117, 111, 116, 59, 98>>,
           <<38, 103, 116, 59, 62, 38, 38>> }

\* encodeEscaping(input)
EncodeEscaping ==
    /\ unit.of = "escape" /\ unit.at = "input"
    /\ unit' = [unit EXCEPT !.at = "encoded", !.mid = encodeEscaping(unit.arg)]
    /\ UNCHANGED <<pc, value, enc, data, changed, table, dec, xml, document, parsed,
                   earlier>>

\* decodeEscaping(input) on what encodeEscaping returned
DecodeEscaping ==
    /\ unit.of = "escape" /\ unit.at = "encoded"
    /\ unit' = [unit EXCEPT !.at = "decoded", !.out = decodeEscaping(unit.mid)]
    /\ UNCHANGED <<pc, value, enc, data, changed, table, dec, xml, document, parsed,
                   earlier>>

\* a place in a container that holds the container itself (levels = 1) or
\* the container levels - 1 containers further out
Ancestor(levels) == Value("ancestor", levels, 0, <<>>, <<>>, <<>>, 0)

\* the values encodePlistBinary is called with step by step: containers
\* without and with a container that holds itself, directly or through
\* another container
CyclicInputs ==
    { Arr(<<Ancestor(1)>>, 1),
      Arr(<<Ancestor(1), Integer(1)>>, 1),
      Arr(<<Arr(<<Ancestor(2)>>, 2)>>, 1),
      Dict(<<<<107>>>>, <<Ancestor(1)>>, 1),
      Dict(<<<<107>>>>, <<Arr(<<Ancestor(2), Integer(1)>>, 2)>>, 1) }
EncodeInputs ==
    {Containers[i] : i \in 1..Len(Containers)} \cup {Integer(1), Str(<<97>>)}
    \cup CyclicInputs

\* what Array.isArray(current) ? current : Object.values(current) holds
ElementsOf(current) ==
    IF current.t \in {"array", "dict"} THEN current.c
    ELSE IF current.t \in {"buffer", "uid"}
    THEN [i \in 1..Len(current.s) |-> Integer(current.s[i])]
    ELSE <<>>

RECURSIVE ObjectAt(_, _)
\* the value the path of indexes leads to from root
ObjectAt(root, path) ==
    IF path = <<>> THEN root
    ELSE ObjectAt(ElementsOf(root)[Head(path)], Tail(path))

\* the path of element i of the object at path
ElementPath(root, path, i) ==
    Bind(ElementsOf(ObjectAt(root, path))[i], LAMBDA element :
       IF element.t = "ancestor"
       THEN SubSeq(path, 1, Len(path) + 1 - element.n)
       ELSE Append(path, i))

\* count is a double, which stops growing at 2^53; in the model it stops
\* growing at MaxCount
CountAdd(count, more) == Min(count + more, MaxCount)

\* encodeBinary calls countElements(data): count = 0 and stack = [data];
\* the stack holds the places of its values in data
CountElementsBegin ==
    /\ unit.of = "encode" /\ unit.at = "input"
    /\ unit' = [unit EXCEPT !.at = "counting",
                            !.mid = [count |-> 0, stack |-> << <<>> >>]]
    /\ UNCHANGED <<pc, value, enc, data, changed, table, dec, xml, document, parsed,
                   earlier>>

\* one pass of the while loop of countElements
CountElementsPass ==
    /\ unit.of = "encode" /\ unit.at = "counting"
    /\ Len(unit.mid.stack) > 0
    /\ \E path \in {unit.mid.stack[Len(unit.mid.stack)]} :
       \E current \in {ObjectAt(unit.arg, path)} :
          unit' = [unit EXCEPT
             !.mid = [count |-> CountAdd(unit.mid.count,
                                         IF current.t \in {"dict", "buffer", "uid"}
                                         THEN 1 + Len(ElementsOf(current)) ELSE 1),
                      stack |-> SubSeq(unit.mid.stack, 1, Len(unit.mid.stack) - 1)
                                \o [i \in 1..Len(ElementsOf(current)) |->
                                       ElementPath(unit.arg, path, i)]]]
    /\ UNCHANGED <<pc, value, enc, data, changed, table, dec, xml, document, parsed,
                   earlier>>

\* countElements has returned its count: encodeBinary encodes the data, packs
\* it and returns, or throws
EncodeBinaryCounted ==
    /\ unit.of = "encode" /\ unit.at = "counting"
    /\ Len(unit.mid.stack) = 0
    /\ \E encoded \in {encodeBinary(unit.arg)} :
          unit' = [unit EXCEPT
                     !.at = IF encoded.err # "" THEN "threw" ELSE "returned",
                     !.out = [err |-> encoded.err, bytes |-> encoded.bytes,
                              count |-> unit.mid.count]]
    /\ UNCHANGED <<pc, value, enc, data, changed, table, dec, xml, document, parsed,
                   earlier>>

\* the type and info packDataHeader is called with: every pair of 0..15,
\* and the pairs with -1 or 16
HeaderInputs == {<<type, info>> : type \in -1..16, info \in -1..16}

\* packDataHeader(type, info)
PackDataHeader ==
    /\ unit.of = "header" /\ unit.at = "input"
    /\ unit' = [unit EXCEPT !.at = "encoded",
                            !.mid = packDataHeader(unit.arg[1], unit.arg[2])]
    /\ UNCHANGED <<pc, value, enc, data, changed, table, dec, xml, document, parsed,
                   earlier>>

\* unpackDataHeader(byte) on the byte packDataHeader returned
UnpackDataHeader ==
    /\ unit.of = "header" /\ unit.at = "encoded"
    /\ unit.mid # Undefined
    /\ unit' = [unit EXCEPT !.at = "decoded", !.out = unpackDataHeader(unit.mid)]
    /\ UNCHANGED <<pc, value, enc, data, changed, table, dec, xml, document, parsed,
                   earlier>>

\* the calls of single functions start from their arguments; no call of the
\* four entry points is under way
UnitInit ==
    /\ pc = "unit"
    /\ value = Undef
    /\ enc = NoEncoding
    /\ data = <<>>
    /\ changed = "no"
    /\ table = NoTable
    /\ dec = Idle
    /\ xml = NoText
    /\ document = <<>>
    /\ parsed = NotParsed
    /\ earlier = {}
    /\ unit \in {UnitOf("integer", n) : n \in WideInputs}
               \cup {UnitOf("escape", s) : s \in EscapeInputs}
               \cup {UnitOf("header", h) : h \in HeaderInputs}

UnitNext ==
    \/ IntegerByteLength
    \/ EncodeInteger
    \/ DecodeInteger
    \/ EncodeEscaping
    \/ DecodeEscaping
    \/ PackDataHeader
    \/ UnpackDataHeader

\* single functions of the codec, each applied to arguments of its own
UnitSpec == UnitInit /\ [][UnitNext]_vars

\* encodePlistBinary called on a value and followed pass by pass through
\* countElements
EncodeCallInit ==
    /\ pc = "unit"
    /\ value = Undef
    /\ enc = NoEncoding
    /\ data = <<>>
    /\ changed = "no"
    /\ table = NoTable
    /\ dec = Idle
    /\ xml = NoText
    /\ document = <<>>
    /\ parsed = NotParsed
    /\ earlier = {}
    /\ unit \in {UnitOf("encode", v) : v \in EncodeInputs}

EncodeCallNext ==
    \/ CountElementsBegin
    \/ CountElementsPass
    \/ EncodeBinaryCounted

\* a call that has begun goes on until it returns or throws
EncodeCallSpec ==
    EncodeCallInit /\ [][EncodeCallNext]_vars /\ WF_vars(EncodeCallNext)

\* the values of the sessions in which the caller makes call after call
CallInputs ==
    { Bool(TRUE), Undef,
      Arr(<<Arr(<<Integer(5)>>, 2), Arr(<<Integer(5)>>, 2), Arr(<<Integer(5)>>, 3)>>, 1),
      Dict(<<<<97>>, <<98>>>>, <<Str(<<98>>), Null>>, 1) }

CallsInit == Init /\ value \in CallInputs

CallsNext == Next \/ CallAgain

\* a session: any sequence of calls of the four functions on one value, its
\* encodings and, once, a changed encoding
CallsSpec == CallsInit /\ [][CallsNext]_vars

(***************************************************************************)
(* Properties                                                              *)
(***************************************************************************)
RECURSIVE Supported(_)
\* a value built from null, booleans, numbers, strings, byte buffers, UIDs of
\* one byte or more, dates, arrays, sets and string-keyed dictionaries
Supported(v) ==
    /\ v.t # "undefined"
    /\ v.t = "uid" => Len(v.s) >= 1
    /\ \A i \in 1..Len(v.c) : Supported(v.c[i])

IsContainer(v) == v.t \in {"array", "set", "dict"}

\* encodePlistBinary returned, or threw, and decodePlistBinary, if called, got
\* the buffer as it was returned and has ended
BinaryRoundTripDone == pc = "done" /\ changed = "no"

\* encodePlistBinary has just returned a buffer
Produced == pc = "encoded" /\ changed = "no"

\* encodePlistBinary has just returned or thrown
EncodeEnded == changed = "no" /\ (pc = "encoded" \/ (pc = "done" /\ dec.status = "idle"))

\* C1: for every supported value v, decodePlistBinary(encodePlistBinary(v))
\* returns a value equal to v.
C1_BinaryRoundTrip ==
    (BinaryRoundTripDone /\ Supported(value)) =>
        (dec.status = "returned" /\ DeepEqual(dec.val, value))

\* a round trip of a supported value ended with another value
C1_Reached ==
    /\ BinaryRoundTripDone /\ Supported(value)
    /\ dec.status = "returned" /\ ~DeepEqual(dec.val, value)

RECURSIVE XmlSupported(_)
\* a value the XML codec is meant to carry: no null, undefined or bigint in it
XmlSupported(v) ==
    /\ v.t \notin {"null", "undefined", "bigint"}
    /\ \A i \in 1..Len(v.c) : XmlSupported(v.c[i])

RECURSIVE SetsAsArrays(_)
\* the value with every Set replaced by the array of its elements
SetsAsArrays(v) ==
    [v EXCEPT !.t = IF @ = "set" THEN "array" ELSE @,
              !.c = [i \in 1..Len(v.c) |-> SetsAsArrays(v.c[i])]]

XmlRoundTripDone == pc = "xmlDone" /\ changed = "no"

\* C2: for every supported value v, a Set being compared as the array of its
\* elements, decodePlistXML(encodePlistXML(v)) returns a value equal to v,
\* whatever the content of its strings and dictionary keys: also for the
\* empty string and for text with white space at its ends.
C2_XmlRoundTrip ==
    (XmlRoundTripDone /\ XmlSupported(value)) =>
        /\ xml.err = ""
        /\ parsed.status = "returned"
        /\ DeepEqual(parsed.val, SetsAsArrays(value))

\* the round trip of a string that begins with white space has ended
C2_Reached ==
    /\ XmlRoundTripDone
    /\ parsed.status = "returned"
    /\ value.t = "string" /\ Len(value.s) > 1 /\ IsSpace(value.s[1])

\* the equality the claim C3 states between two values of one call: scalars
\* by value, containers by identity
SameDistinctValue(a, b) ==
    IF IsContainer(a) \/ IsContainer(b) THEN IsContainer(a) /\ IsContainer(b) /\ a.id = b.id
    ELSE StripIdentity(a) = StripIdentity(b)

\* C3: within one encodePlistBinary call each distinct value (scalars,
\* dates and byte buffers included, by value; containers by identity) is
\* serialized exactly once: no two entries of the object table hold the same
\* distinct value.
C3_SerializedOnce ==
    Produced =>
        \A i, j \in 1..Len(enc.objects) :
            i < j => ~SameDistinctValue(enc.objects[i], enc.objects[j])

\* an encode call met a value again and wrote a reference to its first index
C3_Reached ==
    /\ Produced
    /\ \E i, j \in 1..Len(enc.info.written) :
          i < j /\ enc.info.written[i] = enc.info.written[j]

\* the serialization of v begins at byte pos of bytes: the whole of it for a
\* scalar, the marker byte of its header for a container
SerializationBeginsAt(v, bytes, pos) ==
    IF IsContainer(v)
    THEN ByteAt(bytes, pos) =
            packDataHeader(IF v.t = "array" THEN 10 ELSE IF v.t = "set" THEN 12 ELSE 13,
                           Min(Len(v.c), 15))
    ELSE Bind(encodeType(v, enc.info).data[1], LAMBDA chunk :
           Subarray(bytes, pos, pos + Len(chunk)) = chunk)

\* the trailer and the offset table, read back from the bytes encodeBinary
\* returned
WrittenTrailer ==
    trailerToObject(Subarray(enc.bytes, Len(enc.bytes) - TrailerSize, Len(enc.bytes)))
WrittenOffsetTable == unpackOffsetTable(enc.bytes, WrittenTrailer)

\* C4: in every buffer encodePlistBinary produces, each reference index
\* written inside a container is smaller than numberOfObjects, and entry i of
\* the offset table is the byte position where the serialization of the
\* value with index i begins, the root being index 0 at byte 8.
C4_ReferencesAndOffsets ==
    Produced =>
        /\ \A k \in 1..Len(enc.info.written) :
              enc.info.written[k] >= 0
              /\ enc.info.written[k] < WrittenTrailer.numberOfObjects
        /\ WrittenOffsetTable.err = ""
        /\ Len(WrittenOffsetTable.val) = Len(enc.objects)
        /\ WrittenOffsetTable.val[1] = HeaderSize
        /\ \A i \in 1..Len(enc.objects) :
              SerializationBeginsAt(enc.objects[i], enc.bytes, WrittenOffsetTable.val[i])

\* a buffer was produced for a container that holds a container and a
\* repeated value
C4_Reached ==
    /\ Produced
    /\ \E i \in 2..Len(enc.objects) : IsContainer(enc.objects[i])
    /\ \E i, j \in 1..Len(enc.info.written) :
          i < j /\ enc.info.written[i] = enc.info.written[j]

\* a reference index fits into size bytes
FitsIn(index, size) == size >= 4 \/ index < 256 ^ size

\* C5: the reference width chosen before encoding is large enough for every
\* reference index assigned during the encode of a supported value, Sets
\* with many distinct elements included.
C5_ReferenceWidth ==
    (EncodeEnded /\ Supported(value)) =>
        \A i \in 1..Len(enc.info.map) :
            FitsIn(enc.info.map[i].index, enc.info.objectReferenceSize)

\* an encode call of a supported value threw
C5_Reached == EncodeEnded /\ Supported(value) /\ enc.err # ""

\* C6: a UID of one byte or more, encoded and then decoded through
\* decodeType, comes back as the same bytes, also as an array element.
C6_UidRoundTrip ==
    (BinaryRoundTripDone /\ Supported(value)
        /\ (value.t = "uid" \/ (value.t = "array" /\ Len(value.c) = 1
                                 /\ value.c[1].t = "uid"))) =>
        (dec.status = "returned" /\ DeepEqual(dec.val, value))

\* a UID of 15 bytes or more went through the round trip
C6_Reached ==
    /\ BinaryRoundTripDone /\ value.t = "uid" /\ Len(value.s) >= 15
    /\ dec.status # "idle"

\* C7: decodePlistBinary throws whenever the magic is not "bplist" or the
\* version is not "00".
C7_HeaderChecked ==
    (pc = "done" /\ changed = "header") => dec.status = "threw"

\* a buffer whose version alone differs has been decoded
C7_Reached ==
    /\ pc = "done" /\ changed = "header"
    /\ headerToObject(data).magic = MagicBytes
    /\ headerToObject(data).version # VersionBytes

\* C8: decodePlistBinary throws whenever decoding takes bytes from outside
\* the input: a reference index without an offset-table entry, an object
\* offset at or past the end, a declared length that extends past the end.
C8_OutsideReadsThrow ==
    (pc = "done" /\ dec.outside) => dec.status = "threw"

\* a decode call that took bytes from outside its input returned a value
C8_Reached == pc = "done" /\ dec.outside /\ dec.status = "returned"

\* C9: in every buffer encodePlistBinary produces, the trailer's
\* numberOfObjects is the number of serialized objects, rootObjectOffset is
\* 0, and offsetTableOffset is 8 plus the byte length of all serialized
\* objects, which is where the offset table starts.
C9_Trailer ==
    Produced =>
        /\ WrittenTrailer.numberOfObjects = enc.chunks
        /\ WrittenTrailer.rootObjectOffset = 0
        /\ WrittenTrailer.offsetTableOffset = 8 + enc.bodyLength
        /\ Len(enc.bytes) = WrittenTrailer.offsetTableOffset
                            + enc.chunks * WrittenTrailer.offsetTableOffsetSize
                            + TrailerSize
        /\ WrittenOffsetTable.err = ""
        /\ WrittenOffsetTable.val = enc.offsets

\* a buffer with several objects was produced
C9_Reached == Produced /\ enc.chunks >= 3

\* C10: every decodePlistBinary call ends, by returning or by throwing, also
\* when a container's references name the container itself or an ancestor.
C10_DecodeTerminates ==
    (dec.status = "running") ~> (dec.status \in {"returned", "threw"})

\* the decoder is inside a container it is already decoding further up the
\* call stack
C10_Reached ==
    /\ dec.status = "running"
    /\ \E i, j \in 1..Len(dec.stack) : i < j /\ dec.stack[i].offset = dec.stack[j].offset

RECURSIVE KeyedDicts(_)
\* every entry of every dictionary in the value has a key that is not empty
KeyedDicts(v) ==
    /\ v.t = "dict" => (Len(v.k) = Len(v.c) /\ \A i \in 1..Len(v.k) : v.k[i] # <<>>)
    /\ \A i \in 1..Len(v.c) : KeyedDicts(v.c[i])

XmlDecodeEnded == pc = "xmlDone" /\ parsed.status # "idle"

\* a pass of the loop met, with a dict on top of the stack, a tag that is
\* neither named key nor the closing tag of a container
MetOtherThanKey(met) ==
    /\ met.current = TagDict
    /\ ~(met.match.closing /\ met.match.tag \in objectTags)
    /\ met.match.tag # TagKey

DocumentContent == decodePlistContent(document).content

\* the tags of a text that open a container and do not close themselves, and
\* the tags that close a container
ContainerOpenings(text) ==
    {p \in TagPlaces(text) :
        /\ TagMatchAt(text, p).tag \in objectTags
        /\ ~TagMatchAt(text, p).closing
        /\ ~TagMatchAt(text, p).selfClose}
ContainerClosings(text) ==
    {p \in TagPlaces(text) :
        TagMatchAt(text, p).tag \in objectTags /\ TagMatchAt(text, p).closing}

\* the document opens more containers than it closes before </plist>
UnclosedContainer ==
    Cardinality(ContainerOpenings(DocumentContent))
        > Cardinality(ContainerClosings(DocumentContent))

\* C12: decodePlistXML throws XMLParsingError for every document in which an
\* opened <array> or <dict> is not closed before </plist>; it does not return
\* the value built so far.
C12_UnclosedContainerThrows ==
    (XmlDecodeEnded /\ UnclosedContainer) => parsed.status = "threw"

\* a document that has lost the closing tag of a container was decoded
C12_Reached ==
    /\ XmlDecodeEnded
    /\ changed = "tag"
    /\ UnclosedContainer
    /\ parsed.status = "returned"

\* the document holds the opening of a plist tag and no closing plist tag
PlistNeverClosed ==
    /\ Occurrences(document, PlistOpen, 0) # {}
    /\ Occurrences(document, PlistClose, 0) = {}

\* C13: decodePlistXML throws, and returns no value, for every text that
\* contains an opening <plist ...> tag and no closing </plist> tag.
C13_PlistNeverClosedThrows ==
    (XmlDecodeEnded /\ PlistNeverClosed) =>
        /\ parsed.status = "threw"
        /\ parsed.err = "XMLParsingError: Invalid plist"
        /\ parsed.val = Undef

\* a document that has lost its </plist> was decoded
C13_Reached == XmlDecodeEnded /\ PlistNeverClosed /\ changed = "tag"

RECURSIVE ContainsSet(_)
\* the value is a Set or holds one
ContainsSet(v) == v.t = "set" \/ \E i \in 1..Len(v.c) : ContainsSet(v.c[i])

XmlEncodeEnded == pc \in {"xmlEncoded", "xmlDone"}

\* C14: encodePlistXML writes a Set as an <array> element whose children are
\* the encodings of the Set's elements in iteration order: the text of a value
\* is the text of the same value with arrays in the place of its Sets.
C14_SetWrittenAsArray ==
    (XmlEncodeEnded /\ XmlSupported(value) /\ ContainsSet(value)) =>
        /\ xml.err = ""
        /\ xml.text = encodePlist(SetsAsArrays(value)).text

\* a Set with elements was encoded
C14_Reached ==
    /\ XmlEncodeEnded
    /\ xml.err = ""
    /\ value.t = "set" /\ Len(value.c) > 0

\* two calls of the same function with equal arguments
SameCall(a, b) ==
    /\ a.op = b.op
    /\ DeepEqual(a.value, b.value)
    /\ a.text = b.text

\* equal outcomes: the same error, or equal results
SameOutcome(a, b) ==
    /\ a.err = b.err
    /\ a.bytes = b.bytes
    /\ DeepEqual(a.out, b.out)

RECURSIVE DatesOf(_)
\* the instants of the Dates in a value, in seconds after REFERENCE_DATE
DatesOf(v) ==
    (IF v.t = "date" THEN {Double(v.n, v.f)} ELSE {})
    \cup UNION {DatesOf(v.c[i]) : i \in 1..Len(v.c)}

\* C16: for every instant d with millisecond resolution, decoding the binary
\* encoding of d yields exactly d, the sub-second part included: decodeDate
\* of the bytes encodeDate wrote after the header byte returns d.
C16_DateRoundTrip ==
    Produced =>
        \A d \in DatesOf(value) :
            /\ decodeDate(encodeDate(d), 1).err = ""
            /\ decodeDate(encodeDate(d), 1).val = d

\* a Date that is not a whole number of seconds was encoded
C16_Reached ==
    /\ Produced
    /\ \E d \in DatesOf(value) : d.f # 0

\* the type nibbles decodeType has no case for
UnsupportedTypes == {7, 9, 11, 14, 15}

\* the byte at `offset` is an object header with an unsupported type nibble
UnsupportedAt(buffer, offset) ==
    /\ ByteAt(buffer, offset) # Undefined
    /\ (ByteAt(buffer, offset) \div 16) \in UnsupportedTypes

\* decodeBinary gets as far as its decodeType call on the root object
RootReached(buffer) ==
    /\ headerAccepted(headerToObject(buffer))
    /\ unpackOffsetTable(buffer,
           trailerToObject(Subarray(buffer, Len(buffer) - TrailerSize, Len(buffer)))).err = ""

\* the reference the next step of the innermost container resolves:
\* [some, index]
StepReference(buffer, offsetSize, frame) ==
    IF frame.phase = "value" THEN [some |-> TRUE, index |-> frame.valueIndex]
    ELSE IF frame.i >= frame.bytesLength THEN [some |-> FALSE, index |-> 0]
    ELSE IF readInteger(buffer, offsetSize, frame.offset + frame.i).err # ""
    THEN [some |-> FALSE, index |-> 0]
    ELSE IF /\ frame.type = "dict"
            /\ readInteger(buffer, offsetSize,
                           SatAdd(frame.offset + frame.i, frame.bytesLength)).err # ""
    THEN [some |-> FALSE, index |-> 0]
    ELSE [some |-> TRUE,
          index |-> readInteger(buffer, offsetSize, frame.offset + frame.i).val]

\* the next step calls decodeType on a header byte with an unsupported type:
\* the object the reference leads to is not in the memo map
StepReachesUnsupported ==
    /\ pc = "decoding"
    /\ \E ref \in {StepReference(data, table.offsetSize, dec.stack[Len(dec.stack)])} :
          /\ ref.some
          /\ MemoGet(dec.map, OffsetAt(table.offsets, ref.index)).t = "undefined"
          /\ UnsupportedAt(data, OffsetAt(table.offsets, ref.index))

\* decodeBinary calls decodeType on a root object with an unsupported type
BeginReachesUnsupported ==
    /\ pc = "encoded" /\ pc' # "encoded"
    /\ RootReached(data)
    /\ UnsupportedAt(data, HeaderSize)

\* C17: decoding raises BinaryParsingError for every object header byte whose
\* type nibble is not one of 0x0, 0x1, 0x2, 0x3, 0x4, 0x5, 0x6, 0x8, 0xA, 0xC,
\* 0xD, wherever in the object graph that object is reached: the step that
\* reaches it ends the call with that error.
C17_UnsupportedTypeThrows ==
    [][(BeginReachesUnsupported \/ (StepReachesUnsupported /\ dec' # dec)) =>
           (pc' = "done" /\ dec'.status = "threw" /\ dec'.err = "BinaryParsingError")]_vars

\* a call ended with BinaryParsingError on an object inside a container: the
\* header, the offsets table and the root were accepted
C17_Reached ==
    /\ pc = "done" /\ changed = "byte"
    /\ dec.status = "threw" /\ dec.err = "BinaryParsingError"
    /\ RootReached(data)
    /\ ByteAt(data, HeaderSize) \div 16 \in {10, 12, 13}
    /\ \E i \in 1..Len(table.offsets) : UnsupportedAt(data, table.offsets[i])

\* the trailer decodeBinary reads from the end of the buffer
TrailerOf(buffer) ==
    trailerToObject(Subarray(buffer, Len(buffer) - TrailerSize, Len(buffer)))

\* numberOfObjects is less than 1, or numberOfObjects or offsetTableOffset is
\* greater than 2^53 - 1
TrailerRejected(buffer) ==
    \/ TrailerOf(buffer).numberOfObjects = Unsafe
    \/ TrailerOf(buffer).offsetTableOffset = Unsafe
    \/ TrailerOf(buffer).numberOfObjects < 1

\* decodePlistBinary was called on the buffer and its header was accepted
DecodeCalledPastHeader ==
    /\ pc \in {"decoding", "done"}
    /\ dec.status # "idle"
    /\ headerAccepted(headerToObject(data))

\* C18: decodePlistBinary raises BinaryParsingError, before decoding any
\* object, whenever the trailer's numberOfObjects is less than 1 or
\* numberOfObjects or offsetTableOffset is not a safe integer: the call ends
\* without an offsets table and without a decodeType call.
C18_TrailerRejected ==
    (DecodeCalledPastHeader /\ TrailerRejected(data)) =>
        /\ pc = "done"
        /\ dec.status = "threw" /\ dec.err = "BinaryParsingError"
        /\ table.offsets = <<>>
        /\ dec.val = Undef /\ ~dec.outside

\* a buffer whose trailer says it holds no object was rejected
C18_Reached ==
    /\ DecodeCalledPastHeader
    /\ changed = "byte"
    /\ TrailerOf(data).numberOfObjects < 1
    /\ dec.status = "threw"

\* the byte sequences a string is written from, with their unit sizes: its
\* UTF-16 code units and, when it is ASCII, its bytes
StringBytes(s) ==
    {[bytes |-> Utf16BEBytes(s), unit |-> 2]}
    \cup (IF \A i \in 1..Len(s) : s[i] < 128 THEN {[bytes |-> s, unit |-> 1]} ELSE {})

RECURSIVE ByteSequencesOf(_)
\* the byte sequences in a value: its buffers, its strings and its keys
ByteSequencesOf(v) ==
    (IF v.t = "buffer" THEN {[bytes |-> v.s, unit |-> 1]} ELSE {})
    \cup (IF v.t = "string" THEN StringBytes(v.s) ELSE {})
    \cup UNION {StringBytes(v.k[i]) : i \in 1..Len(v.k)}
    \cup UNION {ByteSequencesOf(v.c[i]) : i \in 1..Len(v.c)}

\* decodeBuffer applied to what encodeBuffer wrote: the info nibble of the
\* header byte, then the bytes after it
DecodedAgain(bytes, bytesSize) ==
    decodeBuffer(encodeBuffer(bytes, 4, bytesSize),
                 unpackDataHeader(encodeBuffer(bytes, 4, bytesSize)[1]).info, 1,
                 bytesSize)

\* C19: for every byte sequence and unit size 1 or 2, decodeBuffer applied to
\* the output of encodeBuffer returns the original bytes: encoder and decoder
\* agree on whether the length is inline (at most 14 units) or in a following
\* integer object.  In particular every UTF-16 string round-trips.
C19_BufferRoundTrip ==
    Produced =>
        \A b \in ByteSequencesOf(value) :
            /\ DecodedAgain(b.bytes, b.unit).err = ""
            /\ DecodedAgain(b.bytes, b.unit).val = b.bytes

\* a sequence of more than 14 bytes in units of 2 was encoded
C19_Reached ==
    /\ Produced
    /\ \E b \in ByteSequencesOf(value) : b.unit = 2 /\ Len(b.bytes) > 14

\* decodeType on the object at `at`, as decodeBinary calls it for the root
RootEntered(buffer, at) ==
    decodeType(buffer, at, TrailerOf(buffer).objectReferenceSize, 1)

\* the decoder has done with the call of decodeType what decodeBinary does
\* with it: thrown its error, returned its value, or begun its container
BegunWith(entered, begun) ==
    CASE entered.kind = "error" ->
            begun.status = "threw" /\ begun.err = entered.err
      [] entered.kind = "value" ->
            begun.status = "returned" /\ begun.val = entered.val
      [] OTHER ->
            /\ begun.status = "running"
            /\ Len(begun.stack) = 1
            /\ begun.stack[1].type = entered.type
            /\ begun.stack[1].offset = entered.offset
            /\ begun.stack[1].bytesLength = entered.bytesLength

\* the buffer is an encoding, as returned or laid out anew
WellFormed == changed \in {"no", "moved"}

\* C20: decodePlistBinary decodes the root object at the byte position given
\* by offset-table entry 0, so a well-formed bplist whose root object is not
\* stored immediately after the 8-byte header still decodes to its root value.
C20_RootAtFirstOffset ==
    [][(pc = "encoded" /\ pc' # "encoded" /\ WellFormed /\ RootReached(data)) =>
           BegunWith(RootEntered(data, OffsetAt(table'.offsets, 0)), dec')]_vars

\* a buffer with the root one byte after the end of the header was decoded:
\* the call returned null for a value that is not null
C20_Reached ==
    /\ pc = "done" /\ changed = "moved"
    /\ OffsetAt(table.offsets, 0) = HeaderSize + 1
    /\ dec.status = "returned" /\ dec.val = Null
    /\ value.t # "null"

\* the object offsets decodeType was called on so far in this call that the
\* state still shows: the root, the containers being decoded and the keys of
\* the memo map
DecodedBefore ==
    {HeaderSize}
    \cup {dec.stack[i].objectIndex : i \in 2..Len(dec.stack)}
    \cup {dec.map[i].key : i \in 1..Len(dec.map)}

\* the next step resolves a reference that is not in the memo map: it calls
\* decodeType
StepDecodes ==
    /\ pc = "decoding"
    /\ \E ref \in {StepReference(data, table.offsetSize, dec.stack[Len(dec.stack)])} :
          /\ ref.some
          /\ MemoGet(dec.map, OffsetAt(table.offsets, ref.index)).t = "undefined"

\* the offset that step decodes at
StepOffset ==
    OffsetAt(table.offsets,
             StepReference(data, table.offsetSize, dec.stack[Len(dec.stack)]).index)

\* C21: within one decodePlistBinary call every object offset is decoded at
\* most once, and all references to the same object index yield the same
\* decoded instance: no step calls decodeType on an offset the call has
\* decoded, or is decoding, already.
C21_DecodedOnce ==
    [][(StepDecodes /\ dec' # dec) => StepOffset \notin DecodedBefore]_vars

\* the root is being decoded a second time, inside itself
C21_Reached ==
    /\ pc = "decoding"
    /\ Len(dec.stack) >= 2
    /\ dec.stack[2].objectIndex = HeaderSize

RECURSIVE ContainersOf(_)
\* the containers in a value, the value itself included
ContainersOf(v) ==
    (IF IsContainer(v) THEN {v} ELSE {})
    \cup UNION {ContainersOf(v.c[i]) : i \in 1..Len(v.c)}

\* what encodeObjects writes for a container of `count` entries whose
\* references are all 0
ContainerBytes(v, count, size) ==
    encodeObjects(count,
                  IF v.t = "array" THEN 10 ELSE IF v.t = "set" THEN 12 ELSE 13,
                  [i \in 1..(IF v.t = "dict" THEN 2 * count ELSE count) |-> 0],
                  size).bytes

\* the header of a container of `count` entries: the count is in the info
\* nibble up to 14, and in an integer object after info 0xF from 15 on; the
\* decoder finds the references right after it
CountLayout(v, count, size) ==
    \E bytes \in {ContainerBytes(v, count, size)} :
    \E read \in {decodeContainerHeader(bytes, unpackDataHeader(bytes[1]).info, 1, size)} :
        /\ unpackDataHeader(bytes[1]).info = Min(count, 15)
        /\ count > 14 =>
              Subarray(bytes, 1, 1 + Len(encodeInteger(count))) = encodeInteger(count)
        /\ read.err = ""
        /\ read.offset = 1 + (IF count > 14 THEN Len(encodeInteger(count)) ELSE 0)
        /\ read.bytesLength = count * size
        /\ Len(bytes) = read.offset
                        + (IF v.t = "dict" THEN 2 ELSE 1) * read.bytesLength

RECURSIVE SameEntries(_, _)
\* containers with the same number of entries in the same order: the same
\* keys, and entries that are containers with the same entries, or the same
\* boolean, null or natural number
SameEntries(v, d) ==
    IF IsContainer(v)
    THEN /\ d.t = v.t
         /\ Len(d.c) = Len(v.c)
         /\ d.k = v.k
         /\ \A i \in 1..Len(v.c) : i <= Len(d.c) => SameEntries(v.c[i], d.c[i])
    ELSE (v.t \in {"bool", "null"} \/ (v.t = "number" /\ v.n >= 0 /\ v.f = 0))
            => DeepEqual(v, d)

InInt64Range(n) ==
    IF n.neg THEN MagLeq(n.mag, Wide(FALSE, <<128, 0, 0, 0, 0, 0, 0, 0>>).mag)
    ELSE WideLeq(n, <<255, 255, 255, 255, 255, 255, 255, 255>>)

\* n in `size` big-endian bytes: the magnitude with zeros before it, or the
\* two's complement of a negative n
BigEndian(n, size) ==
    IF n.neg THEN TwosComplement(n.mag)
    ELSE Zeros(size - Min(size, 9)) \o LowBytes(n.mag, Min(size, 9))

\* C23: for every integer n with -2^63 <= n <= 2^64 - 1, encodeInteger
\* writes a header whose info satisfies 2^info = integerByteLength(n),
\* followed by n in that many big-endian bytes, and decodeInteger applied to
\* that output returns n.
C23_IntegerRoundTrip ==
    (unit.of = "integer" /\ InInt64Range(unit.arg)) =>
        /\ unit.at \in {"encoded", "decoded"} =>
              /\ unit.mid.err = ""
              /\ unpackDataHeader(unit.mid.bytes[1]).type = 1
              /\ Pow2(unpackDataHeader(unit.mid.bytes[1]).info)
                    = integerByteLengthWide(unit.arg).size
              /\ SubSeq(unit.mid.bytes, 2, Len(unit.mid.bytes))
                    = BigEndian(unit.arg, integerByteLengthWide(unit.arg).size)
        /\ unit.at = "decoded" =>
              /\ unit.out.err = ""
              /\ unit.out.val = unit.arg

\* -2^63 and 2^64 - 1 were encoded and decoded
C23_Reached ==
    /\ unit.of = "integer" /\ unit.at = "decoded"
    /\ unit.out.err = ""
    /\ \/ unit.arg = [neg |-> TRUE, mag |-> <<0, 128, 0, 0, 0, 0, 0, 0, 0>>]
       \/ unit.arg = Wide(FALSE, <<255, 255, 255, 255, 255, 255, 255, 255>>)

\* the largest of a list of offsets
LargestOffset(offsets) ==
    CHOOSE o \in {offsets[i] : i \in 1..Len(offsets)} :
        \A i \in 1..Len(offsets) : offsets[i] <= o

\* the offsets of the encoding, and the same offsets on a larger scale, as
\* the objects of a larger document would have them; the largest stays
\* below 2^24, where readInteger is modelled exactly
OffsetFactors == {1, 256, 8192}
ScaledOffsets(factor) == [i \in 1..Len(enc.offsets) |-> enc.offsets[i] * factor]

\* the unsigned big-endian bytes of o in a field of width bytes
OffsetBytes(o, width) == [k \in 1..width |-> (o \div (256 ^ (width - k))) % 256]

\* the table packOffsetTable writes for offsets holds every offset whole in
\* a field as wide as the largest offset needs, and unpackOffsetTable reads
\* the same offsets from it
TableHolds(offsets) ==
    LET width == integerByteLength(LargestOffset(offsets))
    IN Bind(packOffsetTable(offsets), LAMBDA bytes :
         /\ Len(bytes) = Len(offsets) * width
         /\ \A i \in 1..Len(offsets) :
               /\ offsets[i] \div (256 ^ (width - 1)) < 256
               /\ Subarray(bytes, (i - 1) * width, i * width)
                     = OffsetBytes(offsets[i], width)
         /\ unpackOffsetTable(bytes, [numberOfObjects |-> Len(offsets),
                                      offsetTableOffset |-> 0,
                                      offsetTableOffsetSize |-> width])
               = [err |-> "", val |-> offsets])

\* C24: the width of the offset table's entries is integerByteLength of the
\* largest offset, so every offset is written whole and the decoder reads
\* the offsets back unchanged.
C24_OffsetTableWidth ==
    Produced =>
        /\ WrittenTrailer.offsetTableOffsetSize
              = integerByteLength(LargestOffset(enc.offsets))
        /\ \A i \in 1..Len(enc.offsets) :
              Bind(WrittenTrailer.offsetTableOffsetSize, LAMBDA width :
                Subarray(enc.bytes,
                         WrittenTrailer.offsetTableOffset + (i - 1) * width,
                         WrittenTrailer.offsetTableOffset + i * width)
                   = OffsetBytes(enc.offsets[i], width))
        /\ WrittenOffsetTable = [err |-> "", val |-> enc.offsets]
        /\ \A factor \in OffsetFactors : TableHolds(ScaledOffsets(factor))

\* a buffer was produced whose largest offset needs two bytes while its
\* first offsets need one, and four bytes on the larger scale
C24_Reached ==
    /\ Produced
    /\ Len(enc.offsets) >= 3
    /\ LargestOffset(enc.offsets) > 255
    /\ WrittenTrailer.offsetTableOffsetSize = 2
    /\ WrittenOffsetTable.val = enc.offsets
    /\ integerByteLength(LargestOffset(ScaledOffsets(256))) = 4

\* the places where decodeTag is called for a primitive element of the
\* document: the tag after the element's opening tag, for the root element
\* and for every element of an array
PrimitiveOpening(match) ==
    /\ match.found /\ ~match.closing /\ ~match.selfClose
    /\ match.tag \notin objectTags
DecodedPrimitives ==
    (IF PrimitiveOpening(NextTag(DocumentContent, 0))
     THEN {NextTag(DocumentContent, 0)} ELSE {})
    \cup {parsed.passes[i].match : i \in {j \in 1..Len(parsed.passes) :
              /\ parsed.passes[j].current = TagArray
              /\ PrimitiveOpening(parsed.passes[j].match)}}

\* a decoded primitive element whose opening tag is followed by a tag that
\* is not the closing tag of its name
FollowedByOther(opening) ==
    Bind(NextTag(DocumentContent, opening.end), LAMBDA next :
       next.found /\ ~(next.closing /\ next.tag = opening.tag))

\* C25: when the tag after the opening tag of a primitive element is not a
\* closing tag of the same name, also when it is another opening tag of that
\* name, decodePlistXML throws XMLParsingError "Mismatched tags".
C25_MismatchedTags ==
    (XmlDecodeEnded /\ decodePlistContent(document).err = ""
        /\ \E opening \in DecodedPrimitives : FollowedByOther(opening))
    => (parsed.status = "threw" /\ parsed.err = "XMLParsingError: Mismatched tags")

\* a document whose root is a primitive element that another opening tag of
\* its name follows was decoded
C25_Reached ==
    /\ XmlDecodeEnded /\ decodePlistContent(document).err = ""
    /\ PrimitiveOpening(NextTag(DocumentContent, 0))
    /\ Bind(NextTag(DocumentContent, NextTag(DocumentContent, 0).end), LAMBDA next :
          next.found /\ ~next.closing /\ ~next.selfClose
          /\ next.tag = NextTag(DocumentContent, 0).tag)

\* the passes of the loop of decodeObjects that met the closing tag of a
\* container while the innermost open container had the other tag
ClosedByOther ==
    {i \in 1..Len(parsed.passes) :
        /\ parsed.passes[i].match.closing
        /\ parsed.passes[i].match.tag \in objectTags
        /\ parsed.passes[i].current \in objectTags
        /\ parsed.passes[i].match.tag # parsed.passes[i].current}

\* C26: a closing container tag closes the innermost open container only if
\* it has that container's name: </array> met in a dict, or </dict> met in
\* an array, raises an error and pops nothing.
C26_ClosingTagMatches ==
    XmlDecodeEnded =>
        \A i \in ClosedByOther :
            /\ parsed.passes[i].err # ""
            /\ parsed.status = "threw"

\* a document was decoded in which </dict> is met in an array, or </array>
\* in a dict
C26_Reached == XmlDecodeEnded /\ ClosedByOther # {}

\* C27: decodeEscaping(encodeEscaping(s)) is s for every string s, also
\* when s holds text that reads like an entity, such as "&lt;" or
\* "&amp;amp;".
C27_EscapeRoundTrip ==
    (unit.of = "escape" /\ unit.at = "decoded") => unit.out = unit.arg

\* "&lt;" and "&amp;amp;" were encoded, to other strings, and decoded
C27_Reached ==
    /\ unit.of = "escape" /\ unit.at = "decoded"
    /\ unit.arg \in {<<38, 108, 116, 59>>, <<38, 97, 109, 112, 59, 97, 109, 112, 59>>}
    /\ unit.mid # unit.arg
    /\ Len(unit.mid) = Len(unit.arg) + 4

\* C28: every encodePlistBinary call ends, by returning bytes or by
\* throwing, whatever the value, also for a container that holds itself
\* directly or through another container.
C28_EncodeTerminates ==
    (unit.of = "encode" /\ unit.at = "counting")
        ~> (unit.of = "encode" /\ unit.at \in {"returned", "threw"})

\* countElements has met the container that holds itself more often than
\* the value has objects
C28_Reached ==
    /\ unit.of = "encode" /\ unit.at = "counting"
    /\ unit.arg \in CyclicInputs
    /\ unit.mid.count > 8
    /\ unit.mid.stack # <<>>
    /\ unit.mid.stack[Len(unit.mid.stack)] = <<>>

\* C29: for all type and info in 0..15, unpackDataHeader applied to the byte
\* packDataHeader(type, info) returns is exactly (type, info).
C29_HeaderRoundTrip ==
    (unit.of = "header" /\ unit.arg[1] \in 0..15 /\ unit.arg[2] \in 0..15) =>
        /\ unit.at \in {"encoded", "decoded"} => unit.mid \in 0..255
        /\ unit.at = "decoded" =>
              unit.out = [type |-> unit.arg[1], info |-> unit.arg[2]]

\* the headers (15, 15), (0, 8) and (8, 0) were packed and unpacked
C29_Reached ==
    /\ unit.of = "header" /\ unit.at = "decoded"
    /\ unit.arg \in {<<15, 15>>, <<0, 8>>, <<8, 0>>}
    /\ unit.mid \in {255, 8, 128}

\* the number of bytes of the magnitude of n from its first byte that is
\* not 0 on
SignificantBytes(n) ==
    Cardinality({i \in 1..9 : \E j \in 1..i : n.mag[j] # 0})

\* the widths whose range holds n >= 0: 1, 2 and 4 unsigned bytes, 8 signed
\* bytes, 16 bytes with the value in the last 8
WidthsHolding(n) ==
    {w \in {1, 2, 4} : SignificantBytes(n) <= w}
    \cup (IF SignificantBytes(n) <= 8 /\ n.mag[2] <= 127 THEN {8} ELSE {})
    \cup (IF SignificantBytes(n) <= 8 THEN {16} ELSE {})

\* C30: integerByteLength(n) is, for 0 <= n <= 2^64 - 1, the smallest width
\* of 1, 2, 4, 8, 16 whose range holds n; it is 8 for every negative integer;
\* and it throws for n above 2^64 - 1.
C30_ByteWidth ==
    (unit.of = "integer" /\ unit.at = "measured") =>
        IF unit.arg.neg
        THEN unit.out = [err |-> "", size |-> 8]
        ELSE IF WidthsHolding(unit.arg) = {}
        THEN unit.out.err # ""
        ELSE /\ unit.out.err = ""
             /\ unit.out.size \in WidthsHolding(unit.arg)
             /\ \A w \in WidthsHolding(unit.arg) : unit.out.size <= w

\* the width of 2^32 - 1, of 2^63 or of 2^64 was asked for
C30_Reached ==
    /\ unit.of = "integer" /\ unit.at = "measured"
    /\ \/ unit.arg = Wide(FALSE, <<255, 255, 255, 255>>) /\ unit.out.size = 4
       \/ unit.arg = Wide(FALSE, <<128, 0, 0, 0, 0, 0, 0, 0>>) /\ unit.out.size = 16
       \/ unit.arg = Wide(FALSE, <<1, 0, 0, 0, 0, 0, 0, 0, 0>>) /\ unit.out.err # ""

=============================================================================
